---- MODULE Spec2Model ----
(***************************************************************************)
(* A model of the LinkedIn Connection Assistant extension: the page agent  *)
(* (content.js), the coordinator (background service worker), the popup    *)
(* (popup.js) and the settings store (chrome.storage.sync).                *)
(*                                                                         *)
(* Every `await` of the source is a step boundary: the code up to an await *)
(* is one action, and the settling of the awaited promise (by the browser, *)
(* the page or the network) starts the next one.                           *)
(***************************************************************************)
EXTENDS Integers, Sequences, FiniteSets, TLC

VARIABLES
    \* ---- the target tab and its page context (the browser's state)
    tabOpen,              \* the tab exists
    tabUrl,               \* "profile" | "linkedin" | "other"
    tabHung,              \* the page's thread is blocked: nothing it is sent settles
    \* ---- the agent, content.js
    agentLoaded,          \* the content script runs in the page context
    listeners,            \* how many onMessage listeners the page context has (line 249)
    isContentScriptReady, \* content.js:15
    assistantDefined,     \* window.linkedinAssistant is set
    dom,                  \* the DOM: per selector, the text of the element(s) it matches
    docLoading,           \* document.readyState === 'loading'
    agentSettings,        \* window.linkedinAssistant.settings
    settingsLoading,      \* the constructor's loadSettings has not settled yet
    agentReq, agentResp,  \* the last message the agent answered, and its answer
    \* ---- handleIconClick / sendMessageToTab (coordinator)
    smt,                  \* the call in flight: where it stands, what it has done
    smt2,                 \* a second call, started while the first is in flight
    \* ---- the popup, popup.js
    userContextField,     \* userContextTextarea.value, a sequence of characters
    userRoleField,        \* userRoleTextarea.value
    pg,                   \* handleGenerateMessage: where it stands, what it has done
    \* ---- the coordinator's message handling and the settings store
    co,                   \* per sender: the request in flight and its handlers' progress
    requests,             \* requests received from senders other than the popup
    geminiApiKey,         \* the cached key is set (part_000:14)
    envFile,              \* the packaged .env: "missing" (or without a key) | "key"
    keepAliveInterval,    \* the heartbeat timer is set (part_000:225)
    lc,                   \* the lifecycle handler in flight (install, update, startup)
    store,                \* the chrome.storage.sync document
    clock                 \* what new Date() reads

tabVars   == <<tabOpen, tabUrl, tabHung>>
agentVars == <<agentLoaded, listeners, isContentScriptReady, assistantDefined, dom, docLoading,
               agentSettings, settingsLoading, agentReq, agentResp>>
popupVars == <<userContextField, userRoleField, pg>>
coordVars == <<co, requests, geminiApiKey, envFile, keepAliveInterval, lc>>
storeVars == <<store, clock>>

NoResp == [none |-> TRUE]

\* No lifecycle handler runs.
LcIdle == [pc |-> "idle", doc |-> << >>, snap |-> << >>, keyLoading |-> FALSE]

\* ------------------------------------------------------------------ bounds

\* How many messages senders other than the popup may send in one behaviour.
MaxRequests == 2

\* ------------------------------------------------------------------- text
\* Text is a sequence of one-character strings.
IsSpace(c) == c \in {" ", "\t", "\n"}

\* String.prototype.trim
Trim(s) ==
    LET keep == {i \in 1..Len(s) : ~IsSpace(s[i])} IN
    IF keep = {} THEN <<>>
    ELSE SubSeq(s, CHOOSE i \in keep : \A j \in keep : i <= j,
                   CHOOSE i \in keep : \A j \in keep : j <= i)

\* What the user may have typed into a popup field.
FieldTexts == {<<>>, <<" ">>, <<" ", "d", "e", "v", " ">>}

\* ------------------------------------------------------- the settings store
\* A document is a record; an absent key is outside its DOMAIN.
EmptyDoc == [k \in {} |-> TRUE]
Null == [null |-> TRUE]
Has(d, k) == k \in DOMAIN d

\* { ...d, ...n }, and chrome.storage.sync.set(n) on document d
Merge(d, n) == [k \in DOMAIN d \cup DOMAIN n |-> IF k \in DOMAIN n THEN n[k] ELSE d[k]]

\* chrome.storage.sync.get(keys)
Pick(d, keys) == [k \in DOMAIN d \cap keys |-> d[k]]

\* !d.k for a key that holds an object, null or nothing
Falsy(d, k) == ~Has(d, k) \/ d[k] = Null

\* BackgroundManager.setDefaultSettings, the document it writes
defaultSettings(now) ==
    [userContext |-> <<>>,
     userRole    |-> <<>>,
     settings    |-> [messageLength |-> "medium", tone |-> "professional",
                      autoGenerate |-> FALSE],
     statistics  |-> [messagesGenerated |-> 0, extensionInstalled |-> now]]

\* A faulty variant of MigratedDoc: every default is written over the document.
MigratedDocDefaults(currentSettings, now) ==
    [userContext |-> <<>>,
     userRole    |-> <<>>,
     settings    |-> [messageLength |-> "medium", tone |-> "professional",
                      autoGenerate |-> FALSE],
     statistics  |-> [messagesGenerated |-> 0, extensionUpdated |-> now]]

\* BackgroundManager.handleUpdate, the document it writes back (none when the
\* statistics section is there)
MigratedDoc(currentSettings, now) ==
    Merge(currentSettings,
          [statistics |-> [messagesGenerated |-> 0, extensionUpdated |-> now]])

\* A faulty variant of updatedSettings: the nested settings section is merged key
\* by key instead of being replaced.
updatedSettingsDeep(currentSettings, newSettings) ==
    [k \in DOMAIN currentSettings \cup DOMAIN newSettings |->
        IF k \notin DOMAIN newSettings THEN currentSettings[k]
        ELSE IF k = "settings" /\ k \in DOMAIN currentSettings
        THEN Merge(currentSettings[k], newSettings[k])
        ELSE newSettings[k]]

\* BackgroundManager.saveSettings, the document it writes
updatedSettings(currentSettings, newSettings) == Merge(currentSettings, newSettings)

\* BackgroundManager.logActivity, the statistics it writes
LoggedStats(currentStats, type, now) ==
    LET stats == IF Falsy(currentStats, "statistics") THEN EmptyDoc
                 ELSE currentStats.statistics
        count == IF Has(stats, "messagesGenerated") THEN stats.messagesGenerated ELSE 0
    IN  IF type = "messageGenerated"
        THEN Merge(stats, [messagesGenerated |-> count + 1, lastMessageGenerated |-> now])
        ELSE stats

\* ------------------------------------------------------------- the tab URL
Urls == {"profile", "linkedin", "other"}

\* A faulty variant of IncludesLinkedIn: every address passes.
IncludesLinkedInAlways(u) == u \in Urls

\* tab.url.includes('linkedin.com')
IncludesLinkedIn(u) == u \in {"profile", "linkedin"}

\* /linkedin\.com\/in\/[\w-]+\/?(\?.*)?$/.test(url)
MatchesProfilePattern(u) == u = "profile"

\* ---------------------------------------------------------------- the agent
\* The DOM is a record: a selector that matches an element is a key, and its
\* value is the textContent of the first element it matches (for the selectors of
\* extractExperience, of every element it matches, in document order).
nameSelectors ==
    <<"h1.text-heading-xlarge", ".pv-text-details__left-panel h1",
      ".pv-top-card--list-bullet h1", ".ph5 h1", "h1.break-words">>
headlineSelectors ==
    <<".text-body-medium.break-words", ".pv-text-details__left-panel .text-body-medium",
      ".pv-top-card .pv-top-card__headline", ".ph5 .text-body-medium">>
companySelectors ==
    <<".pv-text-details__left-panel .pv-entity__secondary-title",
      ".pv-top-card .pv-entity__secondary-title", ".ph5 .pv-entity__secondary-title",
      ".experience-section .pv-entity__summary-info .pv-entity__secondary-title",
      "[data-field=experience] .pv-entity__summary-info .pv-entity__secondary-title">>
locationSelectors ==
    <<".text-body-small.inline.t-black--light", ".pv-text-details__left-panel .text-body-small",
      ".pv-top-card .pv-top-card__location", ".ph5 .text-body-small">>
aboutSelectors ==
    <<".pv-shared-text-with-see-more-text .break-words", ".pv-about__summary-text .break-words",
      "[data-field=summary] .break-words", ".about-section .pv-shared-text-with-see-more-text">>
experienceSelectors ==
    <<".experience-section .pv-entity__summary-info",
      "[data-field=experience] .pv-entity__summary-info",
      ".pvs-list__item--experience .pvs-entity__summary-info">>

\* The selectors isProfilePage queries (lines 60-62).
headingSelectors ==
    {"h1.text-heading-xlarge", ".pv-text-details__left-panel h1", ".ph5 h1"}

\* The loop of each field extractor: the trimmed text of the first selector, in
\* the list's order, whose element has text that is not blank; << >> when none has.
FirstText(selectors) ==
    LET hits == {i \in 1..Len(selectors) :
                    Has(dom, selectors[i]) /\ Trim(dom[selectors[i]]) # <<>>}
    IN  IF hits = {} THEN <<>>
        ELSE <<Trim(dom[selectors[CHOOSE i \in hits : \A j \in hits : i <= j]])>>

\* A faulty variant of isProfilePage: the address alone decides.
isProfilePageByUrl == MatchesProfilePattern(tabUrl)

\* LinkedInConnectionAssistant.isProfilePage
isProfilePage ==
    MatchesProfilePattern(tabUrl) /\ \E sel \in headingSelectors : Has(dom, sel)

\* A faulty variant of extractName: the default is the empty text.
extractNameNoDefault ==
    IF FirstText(nameSelectors) = <<>> THEN <<>> ELSE FirstText(nameSelectors)[1]

extractName ==
    IF FirstText(nameSelectors) = <<>> THEN <<"t", "h", "e", "r", "e">>
    ELSE FirstText(nameSelectors)[1]

extractHeadline ==
    IF FirstText(headlineSelectors) = <<>> THEN <<>> ELSE FirstText(headlineSelectors)[1]

extractCompany ==
    IF FirstText(companySelectors) = <<>> THEN <<>> ELSE FirstText(companySelectors)[1]

extractLocation ==
    IF FirstText(locationSelectors) = <<>> THEN <<>> ELSE FirstText(locationSelectors)[1]

\* substring(0, 200) + '...'
AboutMax == 200
extractAbout ==
    IF FirstText(aboutSelectors) = <<>> THEN <<>>
    ELSE LET text == FirstText(aboutSelectors)[1] IN
         SubSeq(text, 1, IF Len(text) < AboutMax THEN Len(text) ELSE AboutMax)
         \o <<".", ".", ".">>

\* extractExperience: the first selector that matches any element gives the
\* trimmed texts of its first two elements, joined by '; '.
extractExperience ==
    LET hits == {i \in 1..Len(experienceSelectors) :
                    Has(dom, experienceSelectors[i]) /\ Len(dom[experienceSelectors[i]]) > 0}
    IN  IF hits = {} THEN <<>>
        ELSE LET elements == dom[experienceSelectors[CHOOSE i \in hits : \A j \in hits : i <= j]]
             IN  IF Len(elements) = 1 THEN Trim(elements[1])
                 ELSE Trim(elements[1]) \o <<";", " ">> \o Trim(elements[2])

\* String.prototype.toLowerCase
UpperCase == <<"A", "B", "C", "D", "E", "F", "G", "H", "I", "J", "K", "L", "M", "N", "O", "P", "Q", "R", "S", "T", "U", "V", "W", "X", "Y", "Z">>
LowerCase == <<"a", "b", "c", "d", "e", "f", "g", "h", "i", "j", "k", "l", "m", "n", "o", "p", "q", "r", "s", "t", "u", "v", "w", "x", "y", "z">>
ToLowerCase(s) ==
    [i \in 1..Len(s) |->
        IF \E k \in 1..Len(UpperCase) : UpperCase[k] = s[i]
        THEN LowerCase[CHOOSE k \in 1..Len(UpperCase) : UpperCase[k] = s[i]]
        ELSE s[i]]

\* String.prototype.includes
Includes(text, keyword) ==
    \E i \in 1..(Len(text) - Len(keyword) + 1) :
        \A k \in 1..Len(keyword) : text[i + k - 1] = keyword[k]

\* The keyword table of extractIndustry (lines 194-202), in its declared order.
industries ==
    <<[industry |-> <<"t", "e", "c", "h">>,
       keywords |-> {<<"s", "o", "f", "t", "w", "a", "r", "e">>,
                     <<"d", "e", "v", "e", "l", "o", "p", "e", "r">>,
                     <<"e", "n", "g", "i", "n", "e", "e", "r">>,
                     <<"t", "e", "c", "h">>,
                     <<"p", "r", "o", "g", "r", "a", "m", "m", "i", "n", "g">>,
                     <<"c", "o", "d", "i", "n", "g">>,
                     <<"j", "a", "v", "a", "s", "c", "r", "i", "p", "t">>,
                     <<"p", "y", "t", "h", "o", "n">>,
                     <<"r", "e", "a", "c", "t">>,
                     <<"n", "o", "d", "e">>}],
      [industry |-> <<"m", "a", "r", "k", "e", "t", "i", "n", "g">>,
       keywords |-> {<<"m", "a", "r", "k", "e", "t", "i", "n", "g">>,
                     <<"d", "i", "g", "i", "t", "a", "l">>,
                     <<"s", "o", "c", "i", "a", "l", " ", "m", "e", "d", "i", "a">>,
                     <<"s", "e", "o">>,
                     <<"c", "o", "n", "t", "e", "n", "t">>,
                     <<"b", "r", "a", "n", "d">>,
                     <<"a", "d", "v", "e", "r", "t", "i", "s", "i", "n", "g">>}],
      [industry |-> <<"s", "a", "l", "e", "s">>,
       keywords |-> {<<"s", "a", "l", "e", "s">>,
                     <<"b", "u", "s", "i", "n", "e", "s", "s", " ", "d", "e", "v", "e", "l", "o", "p", "m", "e", "n", "t">>,
                     <<"a", "c", "c", "o", "u", "n", "t">>,
                     <<"r", "e", "v", "e", "n", "u", "e">>,
                     <<"c", "l", "i", "e", "n", "t">>,
                     <<"c", "u", "s", "t", "o", "m", "e", "r">>}],
      [industry |-> <<"f", "i", "n", "a", "n", "c", "e">>,
       keywords |-> {<<"f", "i", "n", "a", "n", "c", "e">>,
                     <<"f", "i", "n", "a", "n", "c", "i", "a", "l">>,
                     <<"i", "n", "v", "e", "s", "t", "m", "e", "n", "t">>,
                     <<"b", "a", "n", "k", "i", "n", "g">>,
                     <<"a", "c", "c", "o", "u", "n", "t", "i", "n", "g">>,
                     <<"a", "n", "a", "l", "y", "s", "t">>}],
      [industry |-> <<"h", "e", "a", "l", "t", "h", "c", "a", "r", "e">>,
       keywords |-> {<<"h", "e", "a", "l", "t", "h", "c", "a", "r", "e">>,
                     <<"m", "e", "d", "i", "c", "a", "l">>,
                     <<"d", "o", "c", "t", "o", "r">>,
                     <<"n", "u", "r", "s", "e">>,
                     <<"p", "h", "y", "s", "i", "c", "i", "a", "n">>,
                     <<"h", "o", "s", "p", "i", "t", "a", "l">>,
                     <<"c", "l", "i", "n", "i", "c">>}],
      [industry |-> <<"e", "d", "u", "c", "a", "t", "i", "o", "n">>,
       keywords |-> {<<"e", "d", "u", "c", "a", "t", "i", "o", "n">>,
                     <<"t", "e", "a", "c", "h", "e", "r">>,
                     <<"p", "r", "o", "f", "e", "s", "s", "o", "r">>,
                     <<"a", "c", "a", "d", "e", "m", "i", "c">>,
                     <<"u", "n", "i", "v", "e", "r", "s", "i", "t", "y">>,
                     <<"s", "c", "h", "o", "o", "l">>}],
      [industry |-> <<"c", "o", "n", "s", "u", "l", "t", "i", "n", "g">>,
       keywords |-> {<<"c", "o", "n", "s", "u", "l", "t", "i", "n", "g">>,
                     <<"c", "o", "n", "s", "u", "l", "t", "a", "n", "t">>,
                     <<"a", "d", "v", "i", "s", "o", "r", "y">>,
                     <<"s", "t", "r", "a", "t", "e", "g", "y">>,
                     <<"m", "a", "n", "a", "g", "e", "m", "e", "n", "t">>}]>>

\* The loop of lines 204-210 over the table, for the text of line 191.
FirstIndustry(text) ==
    LET hits == {i \in 1..Len(industries) :
                    \E keyword \in industries[i].keywords : Includes(text, keyword)}
    IN  IF hits = {} THEN <<"p", "r", "o", "f", "e", "s", "s", "i", "o", "n", "a", "l">>
        ELSE industries[CHOOSE i \in hits : \A j \in hits : i <= j].industry

\* A faulty variant of extractIndustry: the text is not lower-cased.
extractIndustryCaseSensitive ==
    CHOOSE industry \in
        {FirstIndustry(text) :
            text \in {extractHeadline \o <<" ">> \o extractAbout \o <<" ">> \o extractCompany}} :
        TRUE

\* LinkedInConnectionAssistant.extractIndustry: the text is built, lower-cased,
\* and then looked through.
extractIndustry ==
    CHOOSE industry \in
        {FirstIndustry(text) :
            text \in {ToLowerCase(raw) :
                raw \in {extractHeadline \o <<" ">> \o extractAbout \o <<" ">> \o extractCompany}}} :
        TRUE

\* LinkedInConnectionAssistant.extractProfileData
extractProfileData ==
    [name       |-> extractName,
     headline   |-> extractHeadline,
     company    |-> extractCompany,
     location   |-> extractLocation,
     about      |-> extractAbout,
     experience |-> extractExperience,
     industry   |-> extractIndustry]

\* LinkedInConnectionAssistant.getProfileDataForMessage
getProfileDataForMessage ==
    IF ~isProfilePage
    THEN [success |-> FALSE, error |-> "Not a LinkedIn profile page"]
    ELSE [success |-> TRUE, profileData |-> extractProfileData]

\* A faulty variant of AgentDispatch: settingsUpdated is acknowledged without a
\* success field.
AgentDispatchBareAck(action) ==
    IF action = "getProfileData" THEN getProfileDataForMessage
    ELSE IF action = "settingsUpdated" THEN [updated |-> TRUE]
    ELSE [success |-> FALSE, error |-> "Unknown action"]

\* The agent's onMessage listener, lines 271-281: the answer of its dispatch.
AgentDispatch(action) ==
    IF action = "getProfileData" THEN getProfileDataForMessage
    ELSE IF action = "settingsUpdated" THEN [success |-> TRUE]
    ELSE [success |-> FALSE, error |-> "Unknown action"]

\* A faulty variant of AgentResponse: the instance is looked for as it is when the
\* message comes in, without initializeContentScript having run for it.
AgentResponseBeforeInit(action) ==
    IF action = "ping" THEN [ready |-> isContentScriptReady]
    ELSE IF ~assistantDefined
         THEN [success |-> FALSE, error |-> "Assistant not initialized"]
         ELSE AgentDispatch(action)

\* The agent's onMessage listener, lines 249-284: sendResponse's argument, from
\* the flag and the instance as they are when the message comes in.
AgentResponse(action) ==
    LET assistantAfterInit == assistantDefined \/ ~isContentScriptReady IN
    IF action = "ping" THEN [ready |-> isContentScriptReady]
    ELSE IF ~assistantAfterInit
         THEN [success |-> FALSE, error |-> "Assistant not initialized"]
         ELSE AgentDispatch(action)

\* A faulty variant of initializeContentScript: the flag is not looked at, and
\* every run makes a new assistant.
initializeContentScriptUnguarded ==
    /\ isContentScriptReady' = TRUE
    /\ assistantDefined' = TRUE
    /\ agentSettings' = EmptyDoc
    /\ settingsLoading' = TRUE

\* initializeContentScript (lines 215-228): a no-op once the flag is set, else a
\* new assistant, whose constructor starts loadSettings.
initializeContentScript ==
    IF isContentScriptReady
    THEN UNCHANGED <<isContentScriptReady, assistantDefined, agentSettings, settingsLoading>>
    ELSE /\ isContentScriptReady' = TRUE
         /\ assistantDefined' = TRUE
         /\ agentSettings' = EmptyDoc
         /\ settingsLoading' = TRUE

\* The listener's effect on the agent (lines 249-284): a ping changes nothing, any
\* other message runs initializeContentScript first when the flag is not set, and
\* settingsUpdated replaces the cached settings by request.data.
AgentHandles(req) ==
    /\ IF req.action = "ping"
       THEN UNCHANGED <<isContentScriptReady, assistantDefined, agentSettings, settingsLoading>>
       ELSE IF req.action = "settingsUpdated"
       THEN /\ isContentScriptReady' = TRUE
            /\ assistantDefined' = TRUE
            /\ agentSettings' = IF Has(req, "data") THEN req.data ELSE Null
            /\ settingsLoading' = (settingsLoading \/ ~isContentScriptReady)
       ELSE initializeContentScript

\* content.js evaluated in the page (lines 286-302): initializeContentScript runs at
\* once unless the document is still loading and the address is not linkedin.com.
ContentScriptRuns ==
    /\ agentLoaded' = TRUE
    /\ listeners' = listeners + 1
    /\ IF ~docLoading \/ IncludesLinkedIn(tabUrl)
       THEN initializeContentScript
       ELSE UNCHANGED <<isContentScriptReady, assistantDefined, agentSettings, settingsLoading>>

\* The page context is destroyed (navigation, reload): the agent goes with it.
ContextDestroyed ==
    /\ agentLoaded' = FALSE
    /\ listeners' = 0
    /\ isContentScriptReady' = FALSE
    /\ assistantDefined' = FALSE
    /\ agentSettings' = EmptyDoc
    /\ settingsLoading' = FALSE

\* How a chrome.tabs.sendMessage to the tab can settle.
\*   "answer"     the agent's listener calls sendResponse
\*   "noReceiver" rejected: "Could not establish connection. Receiving end does not exist."
\*   "closed"     rejected: the context was destroyed before the answer
\* A hung page settles nothing.
SendOutcomes ==
    IF ~tabOpen THEN {"noReceiver"}
    ELSE IF tabHung THEN {}
    ELSE IF ~agentLoaded THEN {"noReceiver"}
    ELSE {"answer", "closed"}

\* How a chrome.scripting.executeScript of content.js can settle: the script is
\* evaluated in the page, or the injection is rejected (the tab is gone, or the page
\* may not be scripted).
InjectOutcomes ==
    IF ~tabOpen THEN {"rejected"}
    ELSE IF tabHung THEN {}
    ELSE {"injected", "rejected"}

\* A faulty variant of InjectSide: content.js evaluated again in a context that
\* runs it starts over, with the flag of line 15 false, a new assistant from
\* initializeContentScript and one more listener.
InjectSideReruns(o) ==
    IF o = "injected" /\ ~agentLoaded
    THEN ContentScriptRuns /\ UNCHANGED <<dom, docLoading, agentReq, agentResp>>
    ELSE IF o = "injected"
    THEN /\ listeners' = listeners + 1
         /\ isContentScriptReady' = TRUE /\ assistantDefined' = TRUE
         /\ agentSettings' = EmptyDoc /\ settingsLoading' = TRUE
         /\ UNCHANGED <<agentLoaded, dom, docLoading, agentReq, agentResp>>
    ELSE UNCHANGED agentVars

\* The page's side of one settled injection. In a context that already runs
\* content.js the file's top-level const, let and class declarations (lines 7, 15,
\* 16, 18, 246) are redeclarations: the second evaluation ends with a SyntaxError
\* before its first statement, and the agent stays as it is.
InjectSide(o) ==
    IF o = "injected" /\ ~agentLoaded
    THEN ContentScriptRuns /\ UNCHANGED <<dom, docLoading, agentReq, agentResp>>
    ELSE UNCHANGED agentVars

\* The agent's side of one settled send.
AgentSideOf(req, o) ==
    IF o = "answer"
    THEN AgentHandles(req)
         /\ UNCHANGED <<agentLoaded, listeners, dom, docLoading, agentReq, agentResp>>
    ELSE IF o = "closed"
    THEN ContextDestroyed /\ UNCHANGED <<dom, docLoading, agentReq, agentResp>>
    ELSE UNCHANGED agentVars

AgentSide(action, o) == AgentSideOf([action |-> action], o)

\* ------------------------------------------- coordinator: message handling
Senders == {"popup", "ext"}

\* The closed action set of the message bus, and one action outside it.
ActionSet == {"ping", "getProfileData", "generateMessage", "generateGeminiMessage",
              "settingsUpdated", "showGenerateButton", "getSettings", "saveSettings",
              "logActivity"}
BogusAction == "bogus"

CoIdle == [req |-> [action |-> "none"], genPc |-> "none", bmPc |-> "none",
           responses |-> 0, resp |-> NoResp, snap |-> EmptyDoc, posts |-> 0,
           api |-> [kind |-> "none"], prompt |-> <<>>]

\* One call of the request's sendResponse: the requester gets the first answer.
SendResponse(c, r) ==
    [c EXCEPT !.responses = @ + 1, !.resp = IF c.responses = 0 THEN r ELSE @]

\* Every listener chain of the request has run to its end.
Finished(c) == c.genPc = "done" /\ c.bmPc = "done"
Free(c) == c.req.action = "none" \/ Finished(c)

\* The popup still waits for the answer to its request.
PopupWaits == pg.pc = "coord"

\* A request's record once its handlers have moved on: nothing is kept of a
\* finished request whose requester (a popup closed meanwhile) is gone.
Kept(s, c) == IF s = "popup" /\ ~PopupWaits /\ Finished(c) THEN CoIdle ELSE c

\* --- the Generation Client
\* String.prototype.split(' ')[0]: the text before the first space character.
SplitFirst(s) ==
    LET sp == {i \in 1..Len(s) : s[i] = " "} IN
    IF sp = {} THEN s
    ELSE SubSeq(s, 1, (CHOOSE i \in sp : \A j \in sp : i <= j) - 1)

\* ${d.k} in a template literal: a missing field reads undefined.
Interpolated(d, k) == IF Has(d, k) THEN d[k] ELSE <<"u", "n", "d", "e", "f", "i", "n", "e", "d">>

\* A faulty variant of createPrompt: the greeting takes the whole name.
createPromptFullName(profileData) ==
    LET firstName == IF Has(profileData, "name") /\ profileData.name # <<>>
                     THEN profileData.name ELSE <<"t", "h", "e", "r", "e">>
    IN  <<"S", "t", "a", "r", "t", " ", "w", "i", "t", "h", " ", "\"", "H", "i", " ">> \o firstName
        \o <<",", "\"", " ", "u", "s", "i", "n", "g", " ", "t", "h", "e", "i", "r", " ", "f", "i", "r", "s", "t", " ", "n", "a", "m", "e", ".", "\n">>
        \o <<"(", "h", "e", "a", "d", "l", "i", "n", "e", ":", " ">> \o Interpolated(profileData, "headline")
        \o <<";", " ", "c", "o", "m", "p", "a", "n", "y", ":", " ">> \o Interpolated(profileData, "company")
        \o <<";", " ", "i", "n", "d", "u", "s", "t", "r", "y", ":", " ">> \o Interpolated(profileData, "industry")
        \o <<")", ".", "\n">>

\* createPrompt (lines 204-222): the two lines of the template that take text from
\* profileData, lines 210 and 211 from the opening quote to the end of the
\* parenthesis. The rest of the template is the same text for every request.
createPrompt(profileData) ==
    LET firstName == SplitFirst(IF Has(profileData, "name") /\ profileData.name # <<>>
                                THEN profileData.name ELSE <<"t", "h", "e", "r", "e">>)
    IN  <<"S", "t", "a", "r", "t", " ", "w", "i", "t", "h", " ", "\"", "H", "i", " ">> \o firstName
        \o <<",", "\"", " ", "u", "s", "i", "n", "g", " ", "t", "h", "e", "i", "r", " ", "f", "i", "r", "s", "t", " ", "n", "a", "m", "e", ".", "\n">>
        \o <<"(", "h", "e", "a", "d", "l", "i", "n", "e", ":", " ">> \o Interpolated(profileData, "headline")
        \o <<";", " ", "c", "o", "m", "p", "a", "n", "y", ":", " ">> \o Interpolated(profileData, "company")
        \o <<";", " ", "i", "n", "d", "u", "s", "t", "r", "y", ":", " ">> \o Interpolated(profileData, "industry")
        \o <<")", ".", "\n">>

BlockedError(reason) ==
    CASE reason = "SAFETY" ->
           "Message generation failed because the prompt was blocked. Reason: SAFETY"
      [] reason = "OTHER" ->
           "Message generation failed because the prompt was blocked. Reason: OTHER"
EmptyResponseError == "Message generation failed. The API returned an empty response."

\* handleGenerateMessage, lines 181-192: the answer for a 2xx response body. A
\* candidate without text throws in line 182 or 184, which line 193 catches.
ClassifyResponse(responseData) ==
    IF Has(responseData, "candidates") /\ Len(responseData.candidates) > 0
    THEN IF Has(responseData.candidates[1], "text")
         THEN [success |-> TRUE, message |-> Trim(responseData.candidates[1].text)]
         ELSE [success |-> FALSE, error |-> "Cannot read properties of undefined"]
    ELSE IF Has(responseData, "promptFeedback")
            /\ Has(responseData.promptFeedback, "blockReason")
    THEN [success |-> FALSE, error |-> BlockedError(responseData.promptFeedback.blockReason)]
    ELSE [success |-> FALSE, error |-> EmptyResponseError]

\* What the generation API may send back.
CandidateOptions ==
    {EmptyDoc, [candidates |-> <<>>],
     [candidates |-> <<[text |-> <<"H", "i">>]>>],
     [candidates |-> <<[text |-> <<" ", "H", "i", "\n">>]>>],
     [candidates |-> <<[finishReason |-> "SAFETY"]>>]}
FeedbackOptions ==
    {EmptyDoc, [promptFeedback |-> [safetyRatings |-> <<>>]],
     [promptFeedback |-> [blockReason |-> "SAFETY"]],
     [promptFeedback |-> [blockReason |-> "OTHER"]]}
ApiBodies == {Merge(c, f) : c \in CandidateOptions, f \in FeedbackOptions}
ApiOutcomes ==
    {[kind |-> "network"], [kind |-> "status"], [kind |-> "malformed"]}
    \cup {[kind |-> "ok", body |-> b] : b \in ApiBodies}

\* A faulty variant of GenerationResult: the fetch is not inside a try block, and
\* what it or the parser throws rejects the handler's promise unanswered.
GenerationResultUncaught(outcome) ==
    CASE outcome.kind = "network"   -> [error |-> "Failed to fetch"]
      [] outcome.kind = "status"    -> [success |-> FALSE, error |-> "Google Gemini API error"]
      [] outcome.kind = "malformed" -> [error |-> "Unexpected token in JSON"]
      [] outcome.kind = "ok"        -> ClassifyResponse(outcome.body)

\* handleGenerateMessage, lines 145-196: the answer for each way the fetch settles.
GenerationResult(outcome) ==
    CASE outcome.kind = "network"   -> [success |-> FALSE, error |-> "Failed to fetch"]
      [] outcome.kind = "status"    -> [success |-> FALSE, error |-> "Google Gemini API error"]
      [] outcome.kind = "malformed" -> [success |-> FALSE, error |-> "Unexpected token in JSON"]
      [] outcome.kind = "ok"        -> ClassifyResponse(outcome.body)

\* The top-level listener (lines 108-127): which chain it starts.
TopLevelListener(action) ==
    IF action = "generateGeminiMessage" THEN "loadKey" ELSE "done"

\* A faulty variant of HandleMessageStart: without its own case,
\* generateGeminiMessage falls to the default branch.
HandleMessageStartNoGeminiCase(action) ==
    CASE action \in {"getSettings", "saveSettings", "logActivity"} ->
           [pc |-> "read", replies |-> <<>>]
      [] action = "generateMessage" -> [pc |-> "call", replies |-> <<>>]
      [] OTHER -> [pc |-> "done",
                   replies |-> <<[success |-> FALSE, error |-> "Unknown action"]>>]

\* BackgroundManager.handleMessage to its first await: where it stands then, and
\* what it has answered already.
HandleMessageStart(action) ==
    CASE action \in {"getSettings", "saveSettings", "logActivity"} ->
           [pc |-> "read", replies |-> <<>>]
      [] action = "generateMessage" -> [pc |-> "call", replies |-> <<>>]
      [] action = "generateGeminiMessage" -> [pc |-> "done", replies |-> <<>>]
      [] OTHER -> [pc |-> "done",
                   replies |-> <<[success |-> FALSE, error |-> "Unknown action"]>>]

\* A message arrives: both onMessage listeners run.
CoReceive(s, req) ==
    /\ Free(co[s])
    /\ LET bm == HandleMessageStart(req.action)
           c0 == [CoIdle EXCEPT !.req = req,
                                !.genPc = TopLevelListener(req.action),
                                !.bmPc = bm.pc]
       IN  co' = [co EXCEPT ![s] = IF bm.replies = <<>> THEN c0
                                   ELSE SendResponse(c0, bm.replies[1])]
    /\ keepAliveInterval' = TRUE

\* loadApiKey settles (lines 21-44), and handleGenerateMessage runs on to the fetch.
CoLoadKeySettles(s) ==
    /\ co[s].genPc = "loadKey"
    /\ LET apiKey == geminiApiKey \/ envFile = "key"
           req == co[s].req
       IN  /\ geminiApiKey' = apiKey
           /\ co' = [co EXCEPT ![s] = Kept(s,
                IF ~apiKey
                THEN [SendResponse(@, [success |-> FALSE, error |-> "API Key not loaded"])
                        EXCEPT !.genPc = "done"]
                ELSE IF ~Has(req, "data") \/ ~Has(req.data, "profileData")
                THEN [SendResponse(@, [success |-> FALSE, error |-> "TypeError"])
                        EXCEPT !.genPc = "done"]
                ELSE [@ EXCEPT !.genPc = "fetch", !.posts = @ + 1,
                               !.prompt = createPrompt(req.data.profileData)])]
    /\ UNCHANGED <<requests, envFile, keepAliveInterval, lc, storeVars>>
    /\ UNCHANGED <<tabVars, agentVars, smt, smt2, popupVars>>

\* A faulty variant of CoFetchSettles: a POST that failed in transport is sent again.
CoFetchSettlesRetries(s) ==
    /\ co[s].genPc = "fetch"
    /\ \E outcome \in ApiOutcomes :
         co' = [co EXCEPT ![s] =
                  IF outcome.kind = "network"
                  THEN [@ EXCEPT !.posts = @ + 1]
                  ELSE Kept(s, [SendResponse(@, GenerationResult(outcome))
                                  EXCEPT !.genPc = "done", !.api = outcome])]
    /\ UNCHANGED <<requests, geminiApiKey, envFile, keepAliveInterval, lc, storeVars>>
    /\ UNCHANGED <<tabVars, agentVars, smt, smt2, popupVars>>

\* The POST settles.
CoFetchSettles(s) ==
    /\ co[s].genPc = "fetch"
    /\ \E outcome \in ApiOutcomes :
         co' = [co EXCEPT ![s] =
                  Kept(s, [SendResponse(@, GenerationResult(outcome))
                             EXCEPT !.genPc = "done", !.api = outcome])]
    /\ UNCHANGED <<requests, geminiApiKey, envFile, keepAliveInterval, lc, storeVars>>
    /\ UNCHANGED <<tabVars, agentVars, smt, smt2, popupVars>>

\* --- BackgroundManager.handleMessage after its first await
\* A chrome.storage.sync call resolves or is rejected (quota, sync failure).
StorageOutcomes == {"ok", "fails"}
StorageError == [success |-> FALSE, error |-> "storage error"]

BmStands(s, action, pc) == co[s].req.action = action /\ co[s].bmPc = pc

\* case 'getSettings' (lines 346-349, 492-494)
CoGetSettingsSettles(s) ==
    /\ BmStands(s, "getSettings", "read")
    /\ \E o \in StorageOutcomes :
         co' = [co EXCEPT ![s] =
                  [SendResponse(@, IF o = "ok" THEN [success |-> TRUE, data |-> store]
                                   ELSE StorageError)
                     EXCEPT !.bmPc = "done"]]
    /\ UNCHANGED <<requests, geminiApiKey, envFile, keepAliveInterval, lc, storeVars>>
    /\ UNCHANGED <<tabVars, agentVars, smt, smt2, popupVars>>

\* request.data of a request, {} standing for none: spreading undefined adds nothing
DataOf(req) == IF Has(req, "data") THEN req.data ELSE EmptyDoc

\* case 'saveSettings', the read of line 500 settles
CoSaveSettingsReads(s) ==
    /\ BmStands(s, "saveSettings", "read")
    /\ \E o \in StorageOutcomes :
         co' = [co EXCEPT ![s] =
                  IF o = "ok"
                  THEN [@ EXCEPT !.bmPc = "write",
                                 !.snap = updatedSettings(store, DataOf(co[s].req))]
                  ELSE [SendResponse(@, StorageError) EXCEPT !.bmPc = "done"]]
    /\ UNCHANGED <<requests, geminiApiKey, envFile, keepAliveInterval, lc, storeVars>>
    /\ UNCHANGED <<tabVars, agentVars, smt, smt2, popupVars>>

\* case 'saveSettings', the write of line 502 settles
CoSaveSettingsWrites(s) ==
    /\ BmStands(s, "saveSettings", "write")
    /\ \E o \in StorageOutcomes :
         /\ store' = IF o = "ok" THEN Merge(store, co[s].snap) ELSE store
         /\ co' = [co EXCEPT ![s] =
                     [SendResponse(@, IF o = "ok" THEN [success |-> TRUE] ELSE StorageError)
                        EXCEPT !.bmPc = "done"]]
    /\ UNCHANGED <<requests, geminiApiKey, envFile, keepAliveInterval, lc, clock>>
    /\ UNCHANGED <<tabVars, agentVars, smt, smt2, popupVars>>

\* case 'generateMessage' (lines 356-359, 508-512)
CoGenerateMessageSettles(s) ==
    /\ BmStands(s, "generateMessage", "call")
    /\ co' = [co EXCEPT ![s] =
                [SendResponse(@, [success |-> TRUE,
                                  message |-> <<"Message generation handled by content script">>])
                   EXCEPT !.bmPc = "done"]]
    /\ UNCHANGED <<requests, geminiApiKey, envFile, keepAliveInterval, lc, storeVars>>
    /\ UNCHANGED <<tabVars, agentVars, smt, smt2, popupVars>>

\* case 'logActivity', the read of line 519 settles; logActivity catches what it
\* throws (a rejected read, a request without data), and handleMessage answers.
CoLogActivityReads(s) ==
    /\ BmStands(s, "logActivity", "read")
    /\ \E o \in StorageOutcomes :
         co' = [co EXCEPT ![s] =
                  IF o = "ok" /\ Has(co[s].req, "data")
                  THEN [@ EXCEPT !.bmPc = "write",
                                 !.snap = [statistics |->
                                             LoggedStats(Pick(store, {"statistics"}),
                                                         co[s].req.data.type, clock)]]
                  ELSE [SendResponse(@, [success |-> TRUE]) EXCEPT !.bmPc = "done"]]
    /\ UNCHANGED <<requests, geminiApiKey, envFile, keepAliveInterval, lc, storeVars>>
    /\ UNCHANGED <<tabVars, agentVars, smt, smt2, popupVars>>

\* case 'logActivity', the write of line 528 settles
CoLogActivityWrites(s) ==
    /\ BmStands(s, "logActivity", "write")
    /\ \E o \in StorageOutcomes :
         store' = IF o = "ok" THEN Merge(store, co[s].snap) ELSE store
    /\ co' = [co EXCEPT ![s] = [SendResponse(@, [success |-> TRUE]) EXCEPT !.bmPc = "done"]]
    /\ UNCHANGED <<requests, geminiApiKey, envFile, keepAliveInterval, lc, clock>>
    /\ UNCHANGED <<tabVars, agentVars, smt, smt2, popupVars>>

\* What a sender other than the popup may send the coordinator.
AdaProfile ==
    [name |-> <<"A", "d", "a", " ", "L", "o", "v", "e", "l", "a", "c", "e">>, headline |-> <<"E", "n", "g", "i", "n", "e", "e", "r">>,
     company |-> <<>>, location |-> <<>>, about |-> <<>>, experience |-> <<>>,
     industry |-> <<"t", "e", "c", "h">>]
ExtRequests ==
    {[action |-> a] : a \in ActionSet \cup {BogusAction}}
    \cup {[action |-> "generateGeminiMessage", data |-> d] :
            d \in {[userContext |-> <<"d">>],
                   [profileData |-> AdaProfile, userContext |-> <<"d">>,
                    userRole |-> <<"e">>]}}
    \cup {[action |-> "saveSettings", data |-> d] :
            d \in {[userRole |-> <<"p", "m">>],
                   [settings |-> [tone |-> "casual"], theme |-> "dark"],
                   [settings |-> [messageLength |-> "short"]]}}
    \cup {[action |-> "logActivity", data |-> [type |-> t]] :
            t \in {"messageGenerated", "popupOpened"}}

\* A sender other than the popup sends a request.
ExtRequest(req) ==
    /\ requests < MaxRequests
    /\ requests' = requests + 1
    /\ CoReceive("ext", req)
    /\ UNCHANGED <<geminiApiKey, envFile, lc, storeVars>>
    /\ UNCHANGED <<tabVars, agentVars, smt, smt2, popupVars>>

\* What may be sent to the agent of the tab.
AgentRequests ==
    {[action |-> a] : a \in ActionSet \cup {BogusAction}}
    \cup {[action |-> "settingsUpdated",
           data |-> [userContext |-> <<"d">>, userRole |-> <<"e">>]]}

\* The agent's onMessage listener (content.js:249-284) runs for one message.
AgentReceives(req) ==
    /\ requests < MaxRequests
    /\ requests' = requests + 1
    /\ tabOpen /\ ~tabHung /\ agentLoaded
    /\ agentReq' = req
    /\ agentResp' = AgentResponse(req.action)
    /\ AgentHandles(req)
    /\ UNCHANGED <<agentLoaded, listeners, dom, docLoading>>
    /\ UNCHANGED <<tabVars, smt, smt2, popupVars, storeVars>>
    /\ UNCHANGED <<co, geminiApiKey, envFile, keepAliveInterval, lc>>

\* ------------------------------------------------- coordinator: the Bridge
\* The message handleIconClick hands to sendMessageToTab.
IconMessage == "showGenerateButton"

SmtIdle == [pc |-> "idle", pingReady |-> FALSE, pings |-> 0, injections |-> 0,
            deliveries |-> 0, retries |-> 0, result |-> NoResp, waited |-> 0]

\* The wait after executeScript (line 79), in milliseconds.
SmtSettleDelay == 1500

\* A faulty variant of SmtReturns: what is returned is made a failure of the call.
SmtReturnsWrapped(r) ==
    [smt EXCEPT !.pc = "returned",
                !.result = IF Has(r, "success") /\ ~r.success
                           THEN [success |-> FALSE, error |-> "Delivery failed"]
                           ELSE r]

\* sendMessageToTab returns r (lines 55, 63, 82, 85, 89).
SmtReturns(r) == [smt EXCEPT !.pc = "returned", !.result = r]

InjectFailed ==
    [success |-> FALSE, error |-> "Failed to inject content script. Please refresh the page."]

\* BackgroundManager.handleIconClick, to its first await: a LinkedIn tab is sent
\* the message through sendMessageToTab, any other tab is redirected to LinkedIn.
\* (The browser raises action.onClicked only while no popup is open.)
HandleIconClick ==
    /\ smt.pc = "idle" /\ pg.pc = "closed" /\ tabOpen
    /\ IF IncludesLinkedIn(tabUrl)
       THEN /\ smt' = [SmtIdle EXCEPT !.pc = "tabsGet"]
            /\ UNCHANGED <<tabUrl, docLoading, agentLoaded, listeners, isContentScriptReady,
                           assistantDefined, agentSettings, settingsLoading>>
       ELSE /\ smt' = SmtIdle
            /\ tabUrl' = "linkedin" /\ docLoading' = TRUE /\ ContextDestroyed
    /\ UNCHANGED <<tabOpen, tabHung, dom, agentReq, agentResp>>
    /\ UNCHANGED <<popupVars, coordVars, storeVars>>
    /\ UNCHANGED smt2

\* sendMessageToTab, lines 52-60: chrome.tabs.get settles; a tab that is gone or not
\* on linkedin.com ends the call, otherwise the ping is sent.
SmtTabsGet ==
    /\ smt.pc = "tabsGet"
    /\ smt' = IF ~tabOpen
              THEN SmtReturns([success |-> FALSE, error |-> "No tab with id"])
              ELSE IF ~IncludesLinkedIn(tabUrl)
              THEN SmtReturns([success |-> FALSE,
                               error |-> "Tab not accessible or not on LinkedIn"])
              ELSE [smt EXCEPT !.pc = "ping", !.pings = @ + 1]
    /\ UNCHANGED <<tabVars, agentVars, popupVars, coordVars, storeVars>>
    /\ UNCHANGED smt2

\* sendMessageToTab, lines 60-67: the ping settles. ready sends the message at once;
\* a rejection or ready=false goes on to the injection.
SmtPingSettles ==
    /\ smt.pc = "ping"
    /\ \E o \in SendOutcomes :
        /\ AgentSide("ping", o)
        /\ smt' = IF o = "answer" /\ AgentResponse("ping").ready
                  THEN [smt EXCEPT !.pc = "deliver1", !.pingReady = TRUE,
                                   !.deliveries = @ + 1]
                  ELSE [smt EXCEPT !.pc = "inject"]
    /\ UNCHANGED <<tabVars, popupVars, coordVars, storeVars>>
    /\ UNCHANGED smt2

\* Where a rejection of the send of line 63 goes: the catch of line 65, and from
\* there on to the injection.
SmtDeliveryRejected == [smt EXCEPT !.pc = "inject"]

\* sendMessageToTab, line 63: the delivery after a ready ping settles.
SmtDeliverySettles ==
    /\ smt.pc = "deliver1"
    /\ \E o \in SendOutcomes :
        /\ AgentSide(IconMessage, o)
        /\ smt' = IF o = "answer" THEN SmtReturns(AgentResponse(IconMessage))
                  ELSE SmtDeliveryRejected
    /\ UNCHANGED <<tabVars, popupVars, coordVars, storeVars>>
    /\ UNCHANGED smt2

\* A faulty variant of SmtAfterInject: a rejected executeScript is attempted again.
SmtAfterInjectAgain(o) ==
    IF o = "injected"
    THEN [smt EXCEPT !.pc = "settle", !.injections = @ + 1]
    ELSE [smt EXCEPT !.pc = "inject", !.injections = @ + 1]

\* A faulty variant of SmtAfterInject: the message is sent again as soon as
\* executeScript has settled.
SmtAfterInjectNoWait(o) ==
    IF o = "injected"
    THEN [smt EXCEPT !.pc = "deliver2", !.injections = @ + 1, !.deliveries = @ + 1,
                     !.retries = @ + 1]
    ELSE [SmtReturns(InjectFailed) EXCEPT !.injections = @ + 1]

\* After a settled executeScript (lines 71-79, 83-85): on to the 1500 ms wait, or
\* the catch of line 83.
SmtAfterInject(o) ==
    IF o = "injected"
    THEN [smt EXCEPT !.pc = "settle", !.injections = @ + 1]
    ELSE [SmtReturns(InjectFailed) EXCEPT !.injections = @ + 1]

\* sendMessageToTab, lines 70-79 and 83-85: executeScript settles.
SmtInjectSettles ==
    /\ smt.pc = "inject"
    /\ \E o \in InjectOutcomes :
        /\ InjectSide(o)
        /\ smt' = SmtAfterInject(o)
    /\ UNCHANGED <<tabVars, popupVars, coordVars, storeVars>>
    /\ UNCHANGED smt2

\* sendMessageToTab, lines 79-82: the 1500 ms timer fires and the message is sent again.
SmtSettleDelayElapses ==
    /\ smt.pc = "settle"
    /\ smt' = [smt EXCEPT !.pc = "deliver2", !.deliveries = @ + 1, !.retries = @ + 1,
                          !.waited = @ + SmtSettleDelay]
    /\ UNCHANGED <<tabVars, agentVars, popupVars, coordVars, storeVars>>
    /\ UNCHANGED smt2

\* sendMessageToTab, lines 82-86: the send after the injection settles.
SmtRetrySettles ==
    /\ smt.pc = "deliver2"
    /\ \E o \in SendOutcomes :
        /\ AgentSide(IconMessage, o)
        /\ smt' = IF o = "answer" THEN SmtReturns(AgentResponse(IconMessage))
                  ELSE SmtReturns(InjectFailed)
    /\ UNCHANGED <<tabVars, popupVars, coordVars, storeVars>>
    /\ UNCHANGED smt2

\* handleIconClick, lines 387-391: sendMessageToTab has returned; a failed result
\* reloads the tab. The handler's locals are gone when it ends.
HandleIconClickResumes ==
    /\ smt.pc = "returned"
    /\ smt' = SmtIdle
    /\ IF ~smt.result.success /\ tabOpen
       THEN docLoading' = TRUE /\ ContextDestroyed
       ELSE UNCHANGED <<docLoading, agentLoaded, listeners, isContentScriptReady,
                        assistantDefined, agentSettings, settingsLoading>>
    /\ UNCHANGED <<tabVars, dom, agentReq, agentResp>>
    /\ UNCHANGED <<popupVars, coordVars, storeVars>>
    /\ UNCHANGED smt2

\* ------------------------------------------------------------ the popup
\* A faulty variant of ConfigMissing: only the context is looked at.
ConfigMissingContextOnly(userContext, userRole) == userContext = <<>>

\* handleGenerateMessage, lines 138-143: the test of the two fields.
ConfigMissing(userContext, userRole) == userContext = <<>> \/ userRole = <<>>

\* pings stays 0: no handler of the popup sends the agent a ping.
PgIdle == [pc |-> "idle", userContext |-> <<>>, userRole |-> <<>>, pings |-> 0, tabMsgs |-> 0,
           injections |-> 0, retries |-> 0, coordReqs |-> 0, apiCalls |-> 0,
           status |-> "", profileResponse |-> NoResp, loading |-> FALSE,
           settings |-> << >>, disabled |-> TRUE, preview |-> "", waited |-> 0,
           messageActions |-> FALSE, generateLoader |-> FALSE, saveLoading |-> FALSE]

\* The wait after executeScript (line 168), in milliseconds.
PgSettleDelay == 2000

\* PopupManager.updateUI over the texts of the two fields, with checkCurrentTab
\* (lines 100-110): generateButton.disabled is set, the preview shows one of
\* the three placeholder texts, and the message actions are hidden in the first
\* two branches and left as they are in the third.
updateUI(p, userContext, userRole) ==
    LET isLinkedInProfile == tabOpen /\ MatchesProfilePattern(tabUrl)
        canGenerate == Trim(userContext) # <<>> /\ Trim(userRole) # <<>> /\ isLinkedInProfile
    IN  [p EXCEPT !.disabled = ~canGenerate, !.preview = "placeholder",
                  !.messageActions = IF canGenerate THEN @ ELSE FALSE]

\* The popup's state while no popup document exists.
PgClosed == [PgIdle EXCEPT !.pc = "closed"]

\* The popup document is created: the PopupManager constructor (lines 15-19)
\* starts loadSettings.
PopupOpens ==
    /\ pg.pc = "closed" /\ smt.pc = "idle"
    /\ pg' = [PgIdle EXCEPT !.loading = TRUE]
    /\ userContextField' = <<>> /\ userRoleField' = <<>>
    /\ UNCHANGED <<tabVars, agentVars, smt, smt2, coordVars, storeVars>>

\* PopupManager.loadSettings, lines 59-67: the stored texts, when not empty, fill
\* the fields.
LoadedField(field, d, k) == IF Has(d, k) /\ d[k] # <<>> THEN d[k] ELSE field

PopupLoadSettingsSettles ==
    /\ pg.pc # "closed" /\ pg.loading
    /\ \E o \in StorageOutcomes :
         IF o = "ok"
         THEN /\ userContextField' = LoadedField(userContextField, store, "userContext")
              /\ userRoleField' = LoadedField(userRoleField, store, "userRole")
              /\ pg' = updateUI([pg EXCEPT !.loading = FALSE],
                                userContextField', userRoleField')
         ELSE /\ UNCHANGED <<userContextField, userRoleField>>
              /\ pg' = [pg EXCEPT !.loading = FALSE]
    /\ UNCHANGED <<tabVars, agentVars, smt, smt2, coordVars, storeVars>>

\* The popup document is closed: its handlers and their state end with it.
PopupCloses ==
    /\ pg.pc # "closed"
    /\ pg' = PgClosed
    /\ userContextField' = <<>> /\ userRoleField' = <<>>
    /\ co' = [co EXCEPT !["popup"] = IF Finished(@) THEN CoIdle ELSE @]
    /\ UNCHANGED <<tabVars, agentVars, smt, smt2, storeVars,
                   requests, geminiApiKey, envFile, keepAliveInterval, lc>>

\* The user edits a field; the input listener (lines 52-54) runs updateUI.
PopupTypes ==
    /\ pg.pc # "closed"
    /\ \E t \in FieldTexts :
         \/ t # userContextField /\ userContextField' = t /\ UNCHANGED userRoleField
         \/ t # userRoleField /\ userRoleField' = t /\ UNCHANGED userContextField
    /\ pg' = updateUI(pg, userContextField', userRoleField')
    /\ UNCHANGED <<tabVars, agentVars, smt, smt2, coordVars, storeVars>>

\* A faulty variant of PgEnds: the handler returns without the finally of lines
\* 242-244, so setGenerateLoading(false) does not run.
PgEndsWithoutFinally(p, status) ==
    [p EXCEPT !.pc = "idle", !.status = status, !.userContext = <<>>,
              !.userRole = <<>>, !.settings = << >>]

\* handleGenerateMessage returns with `status` shown; its constants go out of
\* scope, and its finally runs setGenerateLoading(false) (lines 280-294): updateUI
\* when the preview is empty or a placeholder, else the button is enabled.
PgEnds(p, status) ==
    LET q == [p EXCEPT !.pc = "idle", !.status = status, !.userContext = <<>>,
                       !.userRole = <<>>, !.settings = << >>, !.generateLoader = FALSE]
    IN  IF q.preview \in {"", "placeholder"}
        THEN updateUI(q, userContextField, userRoleField)
        ELSE [q EXCEPT !.disabled = FALSE]

\* handleGenerateMessage from the click to its first await (lines 131-146).
PgClick ==
    /\ pg.pc = "idle"
    /\ LET userContext == Trim(userContextField)
           userRole == Trim(userRoleField)
           p0 == [PgIdle EXCEPT !.loading = pg.loading, !.generateLoader = TRUE]
       IN  pg' = IF ConfigMissing(userContext, userRole)
                 THEN PgEnds(p0, "Please fill in your context and role.")
                 ELSE [p0 EXCEPT !.pc = "query", !.userContext = userContext,
                                 !.userRole = userRole]
    /\ UNCHANGED <<userContextField, userRoleField, tabVars, agentVars, smt, smt2, coordVars,
                   storeVars>>

\* lines 146-154: chrome.tabs.query settles; the first getProfileData is sent.
PgTabQuerySettles ==
    /\ pg.pc = "query"
    /\ pg' = IF ~tabOpen
             THEN PgEnds(pg, "Could not access the current tab.")
             ELSE [pg EXCEPT !.pc = "send1", !.tabMsgs = @ + 1]
    /\ UNCHANGED <<userContextField, userRoleField, tabVars, agentVars, smt, smt2, coordVars,
                   storeVars>>

\* The request of lines 188-195.
GeminiRequest(p, profileData) ==
    [action |-> "generateGeminiMessage",
     data |-> [profileData |-> profileData, userContext |-> p.userContext,
               userRole |-> p.userRole]]

\* A faulty variant of PgProfileArrives: whatever the agent answered is forwarded
\* to the coordinator.
PgProfileArrivesAlwaysForwards(r) ==
    /\ pg' = [pg EXCEPT !.profileResponse = r, !.pc = "coord", !.coordReqs = @ + 1]
    /\ CoReceive("popup", GeminiRequest(pg, IF Has(r, "profileData")
                                           THEN r.profileData ELSE Null))
    /\ UNCHANGED <<requests, geminiApiKey, envFile, lc>>

\* lines 182-195: a profile answer is in; a failed one ends the click, a good one
\* goes to the coordinator as generateGeminiMessage.
PgProfileArrives(r) ==
    IF ~r.success
    THEN /\ pg' = PgEnds([pg EXCEPT !.profileResponse = r], r.error)
         /\ UNCHANGED coordVars
    ELSE /\ pg' = [pg EXCEPT !.profileResponse = r, !.pc = "coord", !.coordReqs = @ + 1]
         /\ CoReceive("popup", GeminiRequest(pg, r.profileData))
         /\ UNCHANGED <<requests, geminiApiKey, envFile, lc>>

PortClosed ==
    "An unexpected error occurred: The message port closed before a response was received."
ConnectionFailedAfterInject ==
    "An unexpected error occurred: Connection failed even after injecting content script. Please refresh the LinkedIn page."

\* lines 154-180: the first getProfileData settles.
PgSendSettles ==
    /\ pg.pc = "send1"
    /\ \E o \in SendOutcomes :
        /\ AgentSide("getProfileData", o)
        /\ CASE o = "answer" -> PgProfileArrives(AgentResponse("getProfileData"))
             [] o = "noReceiver" -> pg' = [pg EXCEPT !.pc = "inject"] /\ UNCHANGED coordVars
             [] o = "closed" -> pg' = PgEnds(pg, PortClosed) /\ UNCHANGED coordVars
    /\ UNCHANGED <<userContextField, userRoleField, tabVars, smt, smt2, storeVars>>

\* After a settled executeScript (lines 162-168, 173-176).
PgAfterInject(o) ==
    IF o = "injected"
    THEN [pg EXCEPT !.pc = "settle", !.injections = @ + 1]
    ELSE [PgEnds(pg, ConnectionFailedAfterInject) EXCEPT !.injections = @ + 1]

\* lines 162-166 and 173-176: executeScript settles.
PgInjectSettles ==
    /\ pg.pc = "inject"
    /\ \E o \in InjectOutcomes :
        /\ InjectSide(o)
        /\ pg' = PgAfterInject(o)
    /\ UNCHANGED <<userContextField, userRoleField, tabVars, smt, smt2, coordVars, storeVars>>

\* lines 168-171: the 2000 ms timer fires and getProfileData is sent again.
PgSettleDelayElapses ==
    /\ pg.pc = "settle"
    /\ pg' = [pg EXCEPT !.pc = "send2", !.tabMsgs = @ + 1, !.retries = @ + 1,
                        !.waited = @ + PgSettleDelay]
    /\ UNCHANGED <<userContextField, userRoleField, tabVars, agentVars, smt, smt2, coordVars,
                   storeVars>>

\* lines 171-176: the send after the injection settles.
PgRetrySettles ==
    /\ pg.pc = "send2"
    /\ \E o \in SendOutcomes :
        /\ AgentSide("getProfileData", o)
        /\ IF o = "answer"
           THEN PgProfileArrives(AgentResponse("getProfileData"))
           ELSE pg' = PgEnds(pg, ConnectionFailedAfterInject) /\ UNCHANGED coordVars
    /\ UNCHANGED <<userContextField, userRoleField, tabVars, smt, smt2, storeVars>>

\* A faulty variant of HandleFormSubmit: only the context is required.
HandleFormSubmitContextOnly ==
    /\ pg.pc = "idle"
    /\ LET userContext == Trim(userContextField)
           userRole == Trim(userRoleField)
           p0 == [PgIdle EXCEPT !.loading = pg.loading, !.disabled = pg.disabled,
                                !.preview = pg.preview,
                                !.messageActions = pg.messageActions]
       IN  pg' = IF userContext = <<>>
                 THEN [PgEnds(p0, "Please fill in all required fields")
                         EXCEPT !.disabled = pg.disabled, !.preview = pg.preview,
                                !.messageActions = pg.messageActions]
                 ELSE [p0 EXCEPT !.pc = "save", !.saveLoading = TRUE,
                                 !.settings = [userContext |-> userContext,
                                               userRole |-> userRole,
                                               timestamp |-> clock]]
    /\ UNCHANGED <<userContextField, userRoleField, tabVars, agentVars, smt, smt2, coordVars,
                   storeVars>>

\* handleFormSubmit from the submit to its first await (lines 297-317): the two
\* trimmed fields are checked, and written with the instant.
HandleFormSubmit ==
    /\ pg.pc = "idle"
    /\ LET userContext == Trim(userContextField)
           userRole == Trim(userRoleField)
           p0 == [PgIdle EXCEPT !.loading = pg.loading, !.disabled = pg.disabled,
                                !.preview = pg.preview,
                                !.messageActions = pg.messageActions]
       IN  pg' = IF userContext = <<>> \/ userRole = <<>>
                 THEN [PgEnds(p0, "Please fill in all required fields")
                         EXCEPT !.disabled = pg.disabled, !.preview = pg.preview,
                                !.messageActions = pg.messageActions]
                 ELSE [p0 EXCEPT !.pc = "save", !.saveLoading = TRUE,
                                 !.settings = [userContext |-> userContext,
                                               userRole |-> userRole,
                                               timestamp |-> clock]]
    /\ UNCHANGED <<userContextField, userRoleField, tabVars, agentVars, smt, smt2, coordVars,
                   storeVars>>

\* lines 317-320: the write settles; after a good one updateUI starts.
PgSaveSettles ==
    /\ pg.pc = "save"
    /\ \E o \in StorageOutcomes :
         IF o = "ok"
         THEN /\ store' = Merge(store, pg.settings)
              /\ pg' = [pg EXCEPT !.pc = "updateUI", !.status = "Settings saved successfully!"]
         ELSE /\ UNCHANGED store
              /\ pg' = [PgEnds(pg, "Error saving settings. Please try again.")
                          EXCEPT !.disabled = pg.disabled, !.preview = pg.preview,
                                 !.messageActions = pg.messageActions,
                                 !.saveLoading = FALSE]
    /\ UNCHANGED <<userContextField, userRoleField, clock, tabVars, agentVars, smt, smt2,
                   coordVars>>

\* line 320, updateUI (lines 78-98): its tab query settles and the preview text
\* and the button are set; then the handler queries the tab itself (line 324).
PgUpdateUISettles ==
    /\ pg.pc = "updateUI"
    /\ pg' = updateUI([pg EXCEPT !.pc = "tabQuery"], userContextField, userRoleField)
    /\ UNCHANGED <<userContextField, userRoleField, tabVars, agentVars, smt, smt2, coordVars,
                   storeVars>>

\* lines 324-331: the tab query settles; a LinkedIn tab is sent settingsUpdated.
PgSubmitTabQuerySettles ==
    /\ pg.pc = "tabQuery"
    /\ pg' = IF tabOpen /\ IncludesLinkedIn(tabUrl)
             THEN [pg EXCEPT !.pc = "notify", !.tabMsgs = @ + 1]
             ELSE [pg EXCEPT !.pc = "idle", !.settings = << >>, !.saveLoading = FALSE]
    /\ UNCHANGED <<userContextField, userRoleField, tabVars, agentVars, smt, smt2, coordVars,
                   storeVars>>

\* A faulty variant of PgNotifySettles: a rejected send reaches the outer catch.
PgNotifySettlesEscalates ==
    /\ pg.pc = "notify"
    /\ \E o \in SendOutcomes :
         /\ AgentSideOf([action |-> "settingsUpdated", data |-> pg.settings], o)
         /\ pg' = [pg EXCEPT !.pc = "idle", !.settings = << >>, !.saveLoading = FALSE,
                             !.status = IF o = "answer" THEN @
                                        ELSE "Error saving settings. Please try again."]
    /\ UNCHANGED <<userContextField, userRoleField, tabVars, smt, smt2, coordVars, storeVars>>

\* lines 328-336: the send of settingsUpdated settles; a rejection is only logged.
PgNotifySettles ==
    /\ pg.pc = "notify"
    /\ \E o \in SendOutcomes :
         AgentSideOf([action |-> "settingsUpdated", data |-> pg.settings], o)
    /\ pg' = [pg EXCEPT !.pc = "idle", !.settings = << >>, !.saveLoading = FALSE]
    /\ UNCHANGED <<userContextField, userRoleField, tabVars, smt, smt2, coordVars, storeVars>>

\* A faulty variant of PgCoordSettles: the popup keeps the profile it generated
\* for in the store.
PgCoordSettlesKeepsProfile ==
    /\ pg.pc = "coord"
    /\ co["popup"].responses > 0
    /\ pg' = [PgEnds([pg EXCEPT !.preview = IF co["popup"].resp.success
                                            THEN "message" ELSE "sorry",
                                !.messageActions = co["popup"].resp.success],
                     IF co["popup"].resp.success
                         THEN "Message generated successfully!"
                         ELSE co["popup"].resp.error)
                EXCEPT !.apiCalls = co["popup"].posts]
    /\ co' = [co EXCEPT !["popup"] = CoIdle]
    /\ store' = Merge(store, [profileData |-> pg.profileResponse.profileData])
    /\ UNCHANGED <<userContextField, userRoleField, tabVars, agentVars, smt, smt2, clock,
                   requests, geminiApiKey, envFile, keepAliveInterval, lc>>

\* lines 188-231: the coordinator's answer is in.
PgCoordSettles ==
    /\ pg.pc = "coord"
    /\ co["popup"].responses > 0
    /\ pg' = [PgEnds([pg EXCEPT !.preview = IF co["popup"].resp.success
                                            THEN "message" ELSE "sorry",
                                !.messageActions = co["popup"].resp.success],
                     IF co["popup"].resp.success
                         THEN "Message generated successfully!"
                         ELSE co["popup"].resp.error)
                EXCEPT !.apiCalls = co["popup"].posts]
    /\ co' = [co EXCEPT !["popup"] = CoIdle]
    /\ UNCHANGED <<userContextField, userRoleField, tabVars, agentVars, smt, smt2, storeVars,
                   requests, geminiApiKey, envFile, keepAliveInterval, lc>>

\* ------------------------------------------------- coordinator: lifecycle
LcFrame == UNCHANGED <<co, requests, envFile, keepAliveInterval>>

\* handleInstallation to its first await (lines 299-317): an install calls
\* setDefaultSettings, which builds the defaults and writes them; an update calls
\* handleUpdate, which reads the document.
HandleInstallationStart(reason) ==
    IF reason = "install"
    THEN [pc |-> "install", snap |-> defaultSettings(clock)]
    ELSE [pc |-> "updRead", snap |-> EmptyDoc]

\* chrome.runtime.onInstalled: both listeners run, the top-level one (lines
\* 100-103) starting loadApiKey, which fetches .env unless the key is cached.
HandleInstallation(reason) ==
    /\ lc.pc = "idle" /\ ~lc.keyLoading
    /\ LET h == HandleInstallationStart(reason)
       IN  lc' = [LcIdle EXCEPT !.pc = h.pc, !.snap = h.snap, !.keyLoading = ~geminiApiKey]
    /\ UNCHANGED geminiApiKey /\ LcFrame
    /\ UNCHANGED <<storeVars, tabVars, agentVars, smt, smt2, popupVars>>

\* The loadApiKey of the onInstalled listener settles (lines 21-44).
LoadApiKeySettles ==
    /\ lc.keyLoading
    /\ lc' = [lc EXCEPT !.keyLoading = FALSE]
    /\ geminiApiKey' = (geminiApiKey \/ envFile = "key")
    /\ LcFrame
    /\ UNCHANGED <<storeVars, tabVars, agentVars, smt, smt2, popupVars>>

LcEnds == [lc EXCEPT !.pc = "idle", !.doc = EmptyDoc, !.snap = EmptyDoc]

\* The write of setDefaultSettings settles for an install (lines 305-311): after a
\* good one chrome.tabs.create opens popup.html in a new tab, which becomes the
\* active tab: a page of the extension, with no agent, running popup.js. A rejected
\* write goes to the catch of line 318.
InstallWriteSettles ==
    /\ lc.pc = "install"
    /\ lc' = LcEnds
    /\ \E o \in StorageOutcomes :
         IF o = "ok"
         THEN /\ store' = Merge(store, lc.snap)
              /\ tabOpen' = TRUE /\ tabUrl' = "other" /\ tabHung' = FALSE
              /\ docLoading' = FALSE /\ ContextDestroyed
              /\ IF pg.pc = "closed"
                 THEN /\ pg' = [PgIdle EXCEPT !.loading = TRUE]
                      /\ userContextField' = <<>> /\ userRoleField' = <<>>
                 ELSE UNCHANGED popupVars
         ELSE UNCHANGED <<store, tabVars, docLoading, agentLoaded, listeners, isContentScriptReady,
                          assistantDefined, agentSettings, settingsLoading, popupVars>>
    /\ UNCHANGED <<clock, dom, agentReq, agentResp, smt, smt2, geminiApiKey>> /\ LcFrame

\* handleUpdate, the read of line 458 settles: a document with a statistics
\* section is left alone, any other gets one and is written back whole. `doc` is
\* currentSettings as it was read, `snap` as it is written.
HandleUpdateReads ==
    /\ lc.pc = "updRead"
    /\ \E o \in StorageOutcomes :
         lc' = IF o = "ok" /\ Falsy(store, "statistics")
               THEN [lc EXCEPT !.pc = "updWrite", !.doc = store,
                               !.snap = MigratedDoc(store, clock)]
               ELSE LcEnds
    /\ UNCHANGED geminiApiKey /\ LcFrame
    /\ UNCHANGED <<storeVars, tabVars, agentVars, smt, smt2, popupVars>>

\* handleUpdate, the write of line 466 settles.
HandleUpdateWrites ==
    /\ lc.pc = "updWrite"
    /\ lc' = LcEnds
    /\ \E o \in StorageOutcomes :
         store' = IF o = "ok" THEN Merge(store, lc.snap) ELSE store
    /\ UNCHANGED geminiApiKey /\ LcFrame
    /\ UNCHANGED <<clock, tabVars, agentVars, smt, smt2, popupVars>>

\* chrome.runtime.onStartup: handleStartup (lines 326-336) calls verifySettings,
\* which reads the document.
HandleStartup ==
    /\ lc.pc = "idle" /\ ~lc.keyLoading
    /\ lc' = [lc EXCEPT !.pc = "verify"]
    /\ UNCHANGED geminiApiKey /\ LcFrame
    /\ UNCHANGED <<storeVars, tabVars, agentVars, smt, smt2, popupVars>>

\* verifySettings, the read of line 475 settles: a document without a settings
\* section, and a rejected read (the catch of line 483), go to setDefaultSettings.
VerifySettingsReads ==
    /\ lc.pc = "verify"
    /\ \E o \in StorageOutcomes :
         lc' = IF o = "ok" /\ ~Falsy(store, "settings")
               THEN LcEnds
               ELSE [lc EXCEPT !.pc = "setDefault", !.snap = defaultSettings(clock)]
    /\ UNCHANGED geminiApiKey /\ LcFrame
    /\ UNCHANGED <<storeVars, tabVars, agentVars, smt, smt2, popupVars>>

\* The write of setDefaultSettings settles for verifySettings (line 446).
SetDefaultSettingsSettles ==
    /\ lc.pc = "setDefault"
    /\ lc' = LcEnds
    /\ \E o \in StorageOutcomes :
         store' = IF o = "ok" THEN Merge(store, lc.snap) ELSE store
    /\ UNCHANGED geminiApiKey /\ LcFrame
    /\ UNCHANGED <<clock, tabVars, agentVars, smt, smt2, popupVars>>

\* ------------------------------------------------- the browser and the page
\* A profile page as LinkedIn renders it, and a page without any of the elements.
ProfileDom ==
    [nameSel \in {"h1.text-heading-xlarge"} |-> <<" ", "A", "d", "a", " ", "L", "o", "v", "e", "l", "a", "c", "e", "\n">>]
    @@ [headSel \in {".text-body-medium.break-words"} |-> <<"E", "n", "g", "i", "n", "e", "e", "r">>]
Doms == {ProfileDom, EmptyDoc}

\* The tab loads another page: the old context and its agent are gone.
TabNavigates ==
    /\ tabOpen
    /\ \E u \in Urls, d \in Doms :
         tabUrl' = u /\ dom' = d
    /\ docLoading' = TRUE /\ tabHung' = FALSE
    /\ ContextDestroyed
    /\ UNCHANGED <<tabOpen, agentReq, agentResp>>
    /\ UNCHANGED <<smt, smt2, popupVars, coordVars, storeVars>>

TabCloses ==
    /\ tabOpen
    /\ tabOpen' = FALSE
    /\ ContextDestroyed
    /\ UNCHANGED <<tabUrl, tabHung, dom, docLoading, agentReq, agentResp>>
    /\ UNCHANGED <<smt, smt2, popupVars, coordVars, storeVars>>

\* The page's thread blocks (a long script, a modal dialog, a frozen tab).
TabHangs ==
    /\ tabOpen /\ ~tabHung
    /\ tabHung' = TRUE
    /\ UNCHANGED <<tabOpen, tabUrl, agentVars>>
    /\ UNCHANGED <<smt, smt2, popupVars, coordVars, storeVars>>

\* The browser runs the declared content script in a LinkedIn page.
ContentScriptLoads ==
    /\ tabOpen /\ ~tabHung /\ ~agentLoaded /\ IncludesLinkedIn(tabUrl)
    /\ ContentScriptRuns
    /\ UNCHANGED <<tabVars, dom, docLoading, agentReq, agentResp>>
    /\ UNCHANGED <<smt, smt2, popupVars, coordVars, storeVars>>

\* DOMContentLoaded (content.js:288-292)
DomContentLoaded ==
    /\ tabOpen /\ ~tabHung /\ docLoading
    /\ docLoading' = FALSE
    /\ IF agentLoaded
       THEN initializeContentScript
       ELSE UNCHANGED <<isContentScriptReady, assistantDefined, agentSettings, settingsLoading>>
    /\ UNCHANGED <<tabVars, agentLoaded, listeners, dom, agentReq, agentResp>>
    /\ UNCHANGED <<smt, smt2, popupVars, coordVars, storeVars>>

\* A faulty variant of handleUrlChange: the address change makes a new assistant
\* when the page it leaves is a profile page.
handleUrlChangeReinitializes ==
    /\ tabOpen /\ ~tabHung /\ agentLoaded /\ ~docLoading
    /\ \E u \in {v \in Urls : IncludesLinkedIn(v)} \ {tabUrl}, d \in Doms :
         tabUrl' = u /\ dom' = d
    /\ IF assistantDefined /\ MatchesProfilePattern(tabUrl)
       THEN initializeContentScriptUnguarded
       ELSE UNCHANGED <<isContentScriptReady, assistantDefined, agentSettings, settingsLoading>>
    /\ UNCHANGED <<tabOpen, tabHung, agentLoaded, listeners, docLoading, agentReq, agentResp>>
    /\ UNCHANGED <<smt, smt2, popupVars, coordVars, storeVars>>

\* LinkedIn's single-page navigation moves the page to another LinkedIn address
\* and renders it in the same context; the MutationObserver registered once the
\* DOM is ready (content.js:246, 291, 296) runs handleUrlChange (lines 231-243),
\* which records the address and logs: the agent stays as it is.
handleUrlChange ==
    /\ tabOpen /\ ~tabHung /\ agentLoaded /\ ~docLoading
    /\ \E u \in {v \in Urls : IncludesLinkedIn(v)} \ {tabUrl}, d \in Doms :
         tabUrl' = u /\ dom' = d
    /\ UNCHANGED <<tabOpen, tabHung, agentLoaded, listeners, isContentScriptReady,
                   assistantDefined, docLoading, agentSettings, settingsLoading,
                   agentReq, agentResp>>
    /\ UNCHANGED <<smt, smt2, popupVars, coordVars, storeVars>>

\* LinkedInConnectionAssistant.loadSettings settles (content.js:44-51).
AgentLoadSettingsSettles ==
    /\ settingsLoading /\ ~tabHung
    /\ settingsLoading' = FALSE
    /\ \E o \in StorageOutcomes :
         agentSettings' = IF o = "ok"
                          THEN Pick(store, {"userContext", "userRole", "settings"})
                          ELSE agentSettings
    /\ UNCHANGED <<tabVars, agentLoaded, listeners, isContentScriptReady, assistantDefined, dom,
                   docLoading, agentReq, agentResp>>
    /\ UNCHANGED <<smt, smt2, popupVars, coordVars, storeVars>>

\* ---------------------------------------------------------------- the system
vars == <<tabVars, agentVars, smt, smt2, popupVars, coordVars, storeVars>>

Init ==
    /\ tabOpen = TRUE /\ tabUrl \in Urls /\ tabHung = FALSE
    /\ agentLoaded = FALSE /\ listeners = 0 /\ isContentScriptReady = FALSE /\ assistantDefined = FALSE
    /\ dom \in Doms /\ docLoading = FALSE
    /\ agentSettings = EmptyDoc /\ settingsLoading = FALSE
    /\ agentReq = [action |-> "none"] /\ agentResp = NoResp
    /\ smt = SmtIdle /\ smt2 = SmtIdle
    /\ userContextField = <<>> /\ userRoleField = <<>>
    /\ pg = PgClosed
    /\ co = [s \in Senders |-> CoIdle] /\ requests = 0
    /\ geminiApiKey = FALSE /\ envFile \in {"missing", "key"}
    /\ keepAliveInterval = FALSE /\ lc = LcIdle
    /\ store = EmptyDoc /\ clock = 0

\* The popup's Generate flow, the icon click's Bridge call, the page, and the
\* Generation Client that answers the popup.
Next ==
    \/ TabNavigates
    \/ TabCloses
    \/ TabHangs
    \/ ContentScriptLoads
    \/ DomContentLoaded
    \/ AgentLoadSettingsSettles
    \/ HandleIconClick
    \/ SmtTabsGet
    \/ SmtPingSettles
    \/ SmtDeliverySettles
    \/ SmtInjectSettles
    \/ SmtSettleDelayElapses
    \/ SmtRetrySettles
    \/ HandleIconClickResumes
    \/ PopupOpens
    \/ PopupLoadSettingsSettles
    \/ PopupCloses
    \/ PopupTypes
    \/ PgClick
    \/ PgTabQuerySettles
    \/ PgSendSettles
    \/ PgInjectSettles
    \/ PgSettleDelayElapses
    \/ PgRetrySettles
    \/ PgCoordSettles
    \/ CoLoadKeySettles("popup")
    \/ CoFetchSettles("popup")

Spec == Init /\ [][Next]_vars

\* The same system where a handler whose awaited call can settle again and again
\* does go on: a send to a page that answers, a timer, a storage read. Nothing is
\* assumed of the page, the user or the network beyond what Next allows.
BridgeStep ==
    \/ SmtTabsGet \/ SmtPingSettles \/ SmtDeliverySettles \/ SmtInjectSettles
    \/ SmtSettleDelayElapses \/ SmtRetrySettles \/ HandleIconClickResumes
PopupStep ==
    \/ PgTabQuerySettles \/ PgSendSettles \/ PgInjectSettles
    \/ PgSettleDelayElapses \/ PgRetrySettles \/ PgCoordSettles
FairSpec == Spec /\ SF_vars(BridgeStep) /\ SF_vars(PopupStep)

\* The message handlers on their own: the coordinator's two listeners and the
\* agent's listener, each sent every action, with the page and the store under them.
NextHandlers ==
    \/ TabNavigates
    \/ handleUrlChange
    \/ ContentScriptLoads
    \/ DomContentLoaded
    \/ AgentLoadSettingsSettles
    \/ \E req \in AgentRequests : AgentReceives(req)
    \/ \E req \in ExtRequests : ExtRequest(req)
    \/ CoLoadKeySettles("ext")
    \/ CoFetchSettles("ext")
    \/ CoGetSettingsSettles("ext")
    \/ CoSaveSettingsReads("ext")
    \/ CoSaveSettingsWrites("ext")
    \/ CoGenerateMessageSettles("ext")
    \/ CoLogActivityReads("ext")
    \/ CoLogActivityWrites("ext")

SpecHandlers == Init /\ [][NextHandlers]_vars

\* The message handlers where the two awaits of handleGenerateMessage settle: the
\* read of the packaged .env and the POST are fetches, which the network stack
\* resolves or rejects.
FairSpecHandlers ==
    SpecHandlers /\ WF_vars(CoLoadKeySettles("ext")) /\ WF_vars(CoFetchSettles("ext"))

\* The Generation Client on its own: generateGeminiMessage requests for several
\* profiles, each with several texts of the user, and the POST's outcomes.
Names == {<<"A", "d", "a", " ", "L", "o", "v", "e", "l", "a", "c", "e">>, <<"A", "d", "a">>, <<>>,
          <<"A", "d", "a", "\t", "L", "o", "v", "e", "l", "a", "c", "e">>}
Profiles ==
    {[headline |-> <<"E", "n", "g", "i", "n", "e", "e", "r">>, company |-> <<>>, industry |-> <<"t", "e", "c", "h">>]}
    \cup {[name |-> n, headline |-> <<"E", "n", "g", "i", "n", "e", "e", "r">>, company |-> <<>>,
            industry |-> <<"t", "e", "c", "h">>] : n \in Names}
ClientRequests ==
    {[action |-> "generateGeminiMessage", data |-> [userContext |-> <<"d">>]]}
    \cup {[action |-> "generateGeminiMessage",
            data |-> [profileData |-> p, userContext |-> c, userRole |-> r]] :
            p \in Profiles, c \in {<<"d">>, <<"C", "S", " ", "g", "r", "a", "d">>}, r \in {<<"e">>, <<"p", "m">>}}

NextClient ==
    \/ \E req \in ClientRequests : ExtRequest(req)
    \/ CoLoadKeySettles("ext")
    \/ CoFetchSettles("ext")

SpecClient == Init /\ [][NextClient]_vars

\* The page agent's extraction on its own: pages of many shapes, each asked for
\* its profile data.
Node(selector, text) == [k \in {selector} |-> text]

\* Pages whose name selectors match nothing, an element of blank text, or a name.
NameTexts ==
    [k \in {nameSelectors[i] : i \in 1..Len(nameSelectors)} |->
        CASE k = nameSelectors[1] -> <<"A", "d", "a", " ", "L", "o", "v", "e", "l", "a", "c", "e", " ">>
          [] k = nameSelectors[2] -> <<"B", "e", "a">>
          [] k = nameSelectors[3] -> <<"C", "y">>
          [] k = nameSelectors[4] -> <<"\n", "D", "i">>
          [] k = nameSelectors[5] -> <<"E", "v", "e">>]
NameFixtures ==
    {[k \in DOMAIN shape |-> IF shape[k] = "blank" THEN <<" ", "\n">> ELSE NameTexts[k]]
        @@ Node(headlineSelectors[1], <<"E", "n", "g", "i", "n", "e", "e", "r">>) :
        shape \in UNION {[S -> {"blank", "text"}] : S \in SUBSET DOMAIN NameTexts}}

\* Profile pages of one name with the texts that extractIndustry reads.
HeadlineTexts ==
    {<<"S", "o", "f", "t", "w", "a", "r", "e", " ", "E", "n", "g", "i", "n", "e", "e", "r">>, <<"M", "a", "r", "k", "e", "t", "i", "n", "g", " ", "E", "n", "g", "i", "n", "e", "e", "r">>, <<"B", "r", "a", "n", "d", " ", "M", "a", "n", "a", "g", "e", "r">>,
     <<"S", "a", "l", "e", "s", " ", "L", "e", "a", "d">>, <<"F", "i", "n", "a", "n", "c", "i", "a", "l", " ", "A", "n", "a", "l", "y", "s", "t">>, <<"N", "u", "r", "s", "e">>, <<"T", "e", "a", "c", "h", "e", "r">>,
     <<"S", "t", "r", "a", "t", "e", "g", "y", " ", "C", "o", "n", "s", "u", "l", "t", "a", "n", "t">>, <<"P", "a", "i", "n", "t", "e", "r">>, <<"S", "o", "c", "i", "a", "l">>}
AboutTexts ==
    {<<"m", "e", "d", "i", "a", " ", "b", "u", "y", "e", "r">>, <<"I", " ", "l", "o", "v", "e", " ", "P", "y", "t", "h", "o", "n">>,
     [i \in 1..(AboutMax - 2) |-> "x"] \o <<"s", "e", "o">>}
IndustryFixtures ==
    {Node(nameSelectors[1], <<"A", "d", "a", " ", "L", "o", "v", "e", "l", "a", "c", "e">>) @@ h @@ a @@ c
        @@ Node(locationSelectors[4], <<"L", "o", "n", "d", "o", "n">>)
        @@ Node(experienceSelectors[2], <<<<" ", "A", "n", "a", "l", "y", "s", "t">>, <<"C", "l", "e", "r", "k", " ">>, <<"P", "a", "g", "e">>>>) :
        h \in {EmptyDoc} \cup {Node(headlineSelectors[2], t) : t \in HeadlineTexts},
        a \in {EmptyDoc} \cup {Node(aboutSelectors[1], t) : t \in AboutTexts},
        c \in {EmptyDoc, Node(companySelectors[3], <<"A", "c", "m", "e", " ", "H", "o", "s", "p", "i", "t", "a", "l">>)}}
DomFixtures == NameFixtures \cup IndustryFixtures

InitExtract ==
    /\ tabOpen = TRUE /\ tabUrl \in Urls /\ tabHung = FALSE
    /\ agentLoaded = FALSE /\ listeners = 0 /\ isContentScriptReady = FALSE /\ assistantDefined = FALSE
    /\ dom \in DomFixtures /\ docLoading = FALSE
    /\ agentSettings = EmptyDoc /\ settingsLoading = FALSE
    /\ agentReq = [action |-> "none"] /\ agentResp = NoResp
    /\ smt = SmtIdle /\ smt2 = SmtIdle
    /\ userContextField = <<>> /\ userRoleField = <<>>
    /\ pg = PgClosed
    /\ co = [s \in Senders |-> CoIdle] /\ requests = 0
    /\ geminiApiKey = FALSE /\ envFile = "key"
    /\ keepAliveInterval = FALSE /\ lc = LcIdle
    /\ store = EmptyDoc /\ clock = 0

NextExtract ==
    \/ ContentScriptLoads
    \/ AgentLoadSettingsSettles
    \/ AgentReceives([action |-> "getProfileData"])

SpecExtract == InitExtract /\ [][NextExtract]_vars

\* The settings store under the lifecycle handlers and the popup's form.
NextStore ==
    \/ \E reason \in {"install", "update"} : HandleInstallation(reason)
    \/ LoadApiKeySettles
    \/ InstallWriteSettles
    \/ HandleUpdateReads
    \/ HandleUpdateWrites
    \/ HandleStartup
    \/ VerifySettingsReads
    \/ SetDefaultSettingsSettles
    \/ PopupOpens
    \/ PopupLoadSettingsSettles
    \/ PopupCloses
    \/ PopupTypes
    \/ HandleFormSubmit
    \/ PgSaveSettles
    \/ PgUpdateUISettles
    \/ PgSubmitTabQuerySettles
    \/ PgNotifySettles
    \/ ContentScriptLoads
    \/ AgentLoadSettingsSettles

\* Documents the synced store may hold when the extension starts on this device:
\* none, what an earlier version or another device left (a user's texts alone, in
\* the wording the user types now or in another one, or with a field this version
\* does not know, or with an emptied statistics section), and what this version
\* writes.
StoredDocs ==
    {EmptyDoc,
     [userContext |-> <<"d", "e", "v">>, userRole |-> <<"d", "e", "v">>],
     [userContext |-> <<"p", "m">>, userRole |-> <<"p", "m">>],
     [userContext |-> <<"d", "e", "v">>, userRole |-> <<"d", "e", "v">>,
      settings |-> [tone |-> "casual"], theme |-> "dark"],
     [userContext |-> <<"d", "e", "v">>, userRole |-> <<"d", "e", "v">>,
      statistics |-> Null],
     [userContext |-> <<"d", "e", "v">>, userRole |-> <<"d", "e", "v">>,
      statistics |-> [messagesGenerated |-> 1, lastMessageGenerated |-> 0]]}

\* The store's handlers do not look at the page or the key file: one of each.
InitStore ==
    /\ tabOpen = TRUE /\ tabUrl = "linkedin" /\ tabHung = FALSE
    /\ agentLoaded = FALSE /\ listeners = 0 /\ isContentScriptReady = FALSE /\ assistantDefined = FALSE
    /\ dom = ProfileDom /\ docLoading = FALSE
    /\ agentSettings = EmptyDoc /\ settingsLoading = FALSE
    /\ agentReq = [action |-> "none"] /\ agentResp = NoResp
    /\ smt = SmtIdle /\ smt2 = SmtIdle
    /\ userContextField = <<>> /\ userRoleField = <<>>
    /\ pg = PgClosed
    /\ co = [s \in Senders |-> CoIdle] /\ requests = 0
    /\ geminiApiKey = FALSE /\ envFile = "key"
    /\ keepAliveInterval = FALSE /\ lc = LcIdle
    /\ store \in StoredDocs /\ clock = 0

SpecStore == InitStore /\ [][NextStore]_vars

\* ------------------------------------------------------------------ claims
\* A sendMessageToTab call has returned after a ping that was not answered ready.
SmtProbeUnanswered == smt.pc = "returned" /\ smt.pings = 1 /\ ~smt.pingReady

\* A popup exchange has ended in a connection failure: its first getProfileData
\* was rejected.
PgProbeUnanswered ==
    pg.pc = "idle" /\ pg.status \in {PortClosed, ConnectionFailedAfterInject}

\* C1 as stated: a Bridge call to a target that does not answer the probe makes
\* exactly one installation and exactly one retry after it, and never more than
\* two delivery attempts.
C1_ExactlyOneInstallAndRetry ==
    /\ SmtProbeUnanswered =>
          smt.injections = 1 /\ smt.retries = 1 /\ smt.deliveries <= 2
    /\ PgProbeUnanswered =>
          pg.injections = 1 /\ pg.retries = 1 /\ pg.tabMsgs <= 2

\* C1 as the code has it: a Bridge call never makes more than one installation
\* attempt, retries at most once and only after an installation attempt, and never
\* makes more than two delivery attempts; sendMessageToTab makes exactly one
\* installation attempt when the ping is not answered ready, and reports the
\* injection failure whenever it then fails; the popup makes one only when its
\* first send is rejected for want of a receiver, and none on any other rejection;
\* the retry is made exactly when the installation succeeded.
C1_AtMostOneInstallAndRetry ==
    /\ smt.injections <= 1 /\ smt.retries <= smt.injections /\ smt.deliveries <= 2
    /\ pg.injections <= 1 /\ pg.retries <= pg.injections /\ pg.tabMsgs <= 2
    /\ SmtProbeUnanswered =>
          /\ smt.injections = 1
          /\ smt.retries = 0 => smt.result = InjectFailed
    /\ smt.pc \in {"settle", "deliver2"} => smt.injections = 1
    /\ (pg.pc = "idle" /\ pg.status = PortClosed) =>
          pg.injections = 0 /\ pg.retries = 0 /\ pg.tabMsgs = 1
    /\ (pg.pc = "idle" /\ pg.status = ConnectionFailedAfterInject) =>
          pg.injections = 1 /\ pg.tabMsgs = 1 + pg.retries

\* A call that made its one installation and its one retry and still failed.
C1_Witness ==
    /\ SmtProbeUnanswered
    /\ smt.injections = 1 /\ smt.retries = 1 /\ smt.deliveries = 1
    /\ smt.result = InjectFailed

\* C2 as stated: a sendMessageToTab call whose ping was answered ready=true makes
\* no script injection, whatever becomes of the delivery that follows.
C2_NoInstallAfterReadyPing == smt.pingReady => smt.injections = 0 /\ smt.pc # "inject"

\* C3 as stated: the probe is awaited for a bounded time only, so that a ping of
\* sendMessageToTab, or a first getProfileData of the popup, that the target never
\* settles does not keep the call waiting forever.
C3_ProbeWaitEnds ==
    /\ (smt.pc = "ping") ~> (smt.pc # "ping")
    /\ (pg.pc = "send1") ~> (pg.pc # "send1")

\* C9: a click on Generate while the trimmed context or role is empty ends
\* handleGenerateMessage in that same step with the fill-in notice: no message to
\* the tab, no injection, no request to the coordinator, no API call.
PgClicked ==
    /\ pg.pc = "idle" /\ pg' # pg /\ pg'.pc # "closed" /\ pg'.loading = pg.loading
    /\ userContextField' = userContextField /\ userRoleField' = userRoleField
C9_ConfigMissingBlocks ==
    [][(PgClicked /\ (Trim(userContextField) = <<>> \/ Trim(userRoleField) = <<>>))
         => /\ pg'.pc = "idle"
            /\ pg'.status = "Please fill in your context and role."
            /\ pg'.tabMsgs = 0 /\ pg'.injections = 0
            /\ pg'.coordReqs = 0 /\ pg'.apiCalls = 0
            /\ co' = co /\ agentLoaded' = agentLoaded]_vars

\* A click was blocked over a role of blanks only.
C9_Witness ==
    /\ pg.pc = "idle" /\ pg.status = "Please fill in your context and role."
    /\ Trim(userContextField) # <<>> /\ userRoleField = <<" ">>

\* A response object with a boolean success field.
HasSuccess(r) == Has(r, "success") /\ r.success \in BOOLEAN
UnknownAction == [success |-> FALSE, error |-> "Unknown action"]
Answered(s) == co[s].req.action # "none" /\ co[s].responses > 0

\* C4 as stated: whichever handler answers an action of the closed set, the agent's
\* listener or the coordinator's listeners, its response has a boolean success.
C4_EveryResponseHasSuccess ==
    /\ agentReq.action \in ActionSet => HasSuccess(agentResp)
    /\ \A s \in Senders :
          (Answered(s) /\ co[s].req.action \in ActionSet) => HasSuccess(co[s].resp)

\* C4 as the code has it: every response of the coordinator's listeners has a
\* boolean success, and so has every response of the agent's listener but the one
\* to ping, which is {ready: boolean} and has no success field.
C4_EveryResponseButPingHasSuccess ==
    /\ agentReq.action \in (ActionSet \cup {BogusAction}) \ {"ping"} =>
          HasSuccess(agentResp)
    /\ agentReq.action = "ping" =>
          /\ ~Has(agentResp, "success")
          /\ Has(agentResp, "ready") /\ agentResp.ready \in BOOLEAN
    /\ \A s \in Senders : Answered(s) => HasSuccess(co[s].resp)

\* The agent has answered a ping and the coordinator a getSettings.
C4_Witness ==
    /\ agentReq.action = "ping" /\ agentResp = [ready |-> TRUE]
    /\ co["ext"].req.action = "getSettings" /\ Answered("ext")
    /\ co["ext"].resp.success

\* C5: a request to the coordinator never has its response callback called twice,
\* and when both listeners are through with it the callback has been called once.
C5_ExactlyOneResponse ==
    \A s \in Senders :
        /\ co[s].responses <= 1
        /\ (co[s].req.action # "none" /\ Finished(co[s])) => co[s].responses = 1

\* A generateGeminiMessage whose handler threw over a request without data has
\* been answered once, after an unrecognized action was.
C5_Witness ==
    /\ co["ext"].req = [action |-> "generateGeminiMessage"]
    /\ Finished(co["ext"]) /\ co["ext"].responses = 1
    /\ co["ext"].resp = [success |-> FALSE, error |-> "TypeError"]
    /\ requests = 2

\* C6 as stated: no action of the closed set that the code addresses to a handler
\* is answered by it with the Unknown-action error.
C6_NoUnknownForRecognized ==
    /\ agentReq.action \in {"ping", "getProfileData", "settingsUpdated", IconMessage}
          => agentResp # UnknownAction
    /\ \A s \in Senders :
          (Answered(s) /\ co[s].req.action \in {"generateMessage", "generateGeminiMessage",
                                                 "getSettings", "saveSettings", "logActivity"})
            => co[s].resp # UnknownAction

\* The generation API answered 2xx with this body, and the request was answered.
Classified(s) == co[s].api.kind = "ok" /\ Answered(s)
CandidateText(b) ==
    IF Has(b, "candidates") /\ Len(b.candidates) > 0 /\ Has(b.candidates[1], "text")
    THEN <<b.candidates[1].text>> ELSE <<>>
BlockReason(b) ==
    IF Has(b, "promptFeedback") /\ Has(b.promptFeedback, "blockReason")
    THEN <<b.promptFeedback.blockReason>> ELSE <<>>
NoCandidates(b) == ~Has(b, "candidates") \/ Len(b.candidates) = 0

\* C10 as stated: a 2xx response is answered in one of three ways: success with
\* the trimmed text when a candidate text is there, the blocked error with its
\* reason when there are no candidates but a block reason, the empty-response
\* error in every other case.
C10_ThreeWayClassification ==
    \A s \in Senders : Classified(s) =>
        LET b == co[s].api.body
            r == co[s].resp
        IN  IF CandidateText(b) # <<>>
            THEN r = [success |-> TRUE, message |-> Trim(CandidateText(b)[1])]
            ELSE IF NoCandidates(b) /\ BlockReason(b) # <<>>
            THEN /\ r = [success |-> FALSE, error |-> BlockedError(BlockReason(b)[1])]
                 /\ r.error # EmptyResponseError
            ELSE r = [success |-> FALSE, error |-> EmptyResponseError]

\* The write of handleUpdate has been applied in this step.
UpdateWrote == lc.pc = "updWrite" /\ lc'.pc = "idle" /\ store' = Merge(store, lc.snap)
\* handleUpdate leaves its read.
UpdateRead == lc.pc = "updRead" /\ lc'.pc # "updRead"

UserSaved ==
    /\ Has(store, "userContext") /\ store.userContext # <<>>
    /\ Has(store, "userRole") /\ store.userRole # <<>>
\* An explicit save writes in this step: the popup's form, or a saveSettings request.
ExplicitSave ==
    \/ pg.pc = "save" /\ pg'.pc # "save"
    \/ \E s \in Senders : BmStands(s, "saveSettings", "write") /\ co'[s].bmPc = "done"

\* C8 as stated: once the user's userContext and userRole are in the store, no step
\* but an explicit save changes either of them.
C8_OnlyExplicitSaveChangesTexts ==
    [][(UserSaved /\ ~ExplicitSave) =>
         /\ Has(store', "userContext") /\ store'.userContext = store.userContext
         /\ Has(store', "userRole") /\ store'.userRole = store.userRole]_vars

\* A generateGeminiMessage request whose handler has returned.
GemDone(s) == co[s].req.action = "generateGeminiMessage" /\ co[s].genPc = "done"
\* {success: true, message} or {success: false, error}, the text not empty.
Structured(r) ==
    /\ HasSuccess(r)
    /\ IF r.success THEN DOMAIN r = {"success", "message"}
       ELSE DOMAIN r = {"success", "error"} /\ r.error # ""

\* C11: every generateGeminiMessage request is answered, once, with a structured
\* result; a missing key and a request with missing data (no POST is made), a
\* network error, a non-2xx status, a malformed body and a candidate without text
\* are each answered success=false with an error text; and a request that came in
\* does get its answer.
C11_StructuredResultAlways ==
    /\ [](\A s \in Senders : GemDone(s) =>
             /\ co[s].responses = 1 /\ Structured(co[s].resp)
             /\ co[s].posts = 0 => ~co[s].resp.success
             /\ co[s].api.kind \in {"network", "status", "malformed"} => ~co[s].resp.success
             /\ (co[s].api.kind = "ok" /\ CandidateText(co[s].api.body) = <<>>) =>
                   ~co[s].resp.success)
    /\ \A s \in Senders :
          (co[s].req.action = "generateGeminiMessage" /\ co[s].genPc # "done")
             ~> (GemDone(s) /\ co[s].responses = 1)

\* A request whose POST came back 2xx with a body that is not JSON was answered
\* with the parser's error.
C11_Witness ==
    /\ GemDone("ext") /\ co["ext"].api.kind = "malformed" /\ co["ext"].posts = 1
    /\ co["ext"].resp = [success |-> FALSE, error |-> "Unexpected token in JSON"]

\* The request carries the data that createPrompt reads.
HasProfileData(req) == Has(req, "data") /\ Has(req.data, "profileData")

\* C12 as stated: a generateGeminiMessage request causes at most one POST, exactly
\* one when the API key is available and none when it is not.
C12_OnePostIffKey ==
    \A s \in Senders :
        /\ co[s].posts <= 1
        /\ GemDone(s) => co[s].posts = IF geminiApiKey THEN 1 ELSE 0

\* C12 as the code has it: a request never causes more than one POST, whatever the
\* POST's outcome; a handled generateGeminiMessage request has caused exactly one
\* when the key is available and the request carries data with profileData, and
\* none when the key is missing or the data is; no other action causes a POST.
C12_AtMostOnePost ==
    \A s \in Senders :
        /\ co[s].posts <= 1
        /\ co[s].genPc = "fetch" => co[s].posts = 1
        /\ co[s].req.action # "generateGeminiMessage" => co[s].posts = 0
        /\ GemDone(s) =>
              co[s].posts = IF geminiApiKey /\ HasProfileData(co[s].req) THEN 1 ELSE 0

\* A request whose one POST failed in transport has been answered, and no second
\* POST was made.
C12_Witness ==
    /\ GemDone("ext") /\ co["ext"].api.kind = "network"
    /\ co["ext"].posts = 1 /\ ~co["ext"].resp.success

\* The POST of the request has been sent with the prompt.
Posted(s) == co[s].req.action = "generateGeminiMessage" /\ co[s].posts = 1

\* C13 as stated: the prompt sent for a request differs from the prompt of any
\* request with the same profileData and another userContext or userRole.
C13_PromptDependsOnUserTexts ==
    \A s \in Senders : Posted(s) =>
        \A other \in ClientRequests :
            (/\ HasProfileData(other)
             /\ other.data.profileData = co[s].req.data.profileData
             /\ \/ other.data.userContext # co[s].req.data.userContext
                \/ other.data.userRole # co[s].req.data.userRole)
            => createPrompt(other.data.profileData) # co[s].prompt

\* t occurs in s.
Contains(s, t) == \E i \in 1..(Len(s) - Len(t) + 1) : SubSeq(s, i, i + Len(t) - 1) = t
\* The longest prefix of s in which no character is in the set seps.
PrefixBefore(s, seps) ==
    LET n == CHOOSE n \in 0..Len(s) :
                 /\ \A i \in 1..n : s[i] \notin seps
                 /\ n = Len(s) \/ s[n + 1] \in seps
    IN  SubSeq(s, 1, n)
Greeting(token) == <<"H", "i", " ">> \o token \o <<",">>
NameOf(p) == IF Has(p, "name") THEN p.name ELSE <<>>

\* C14 as stated: the prompt greets with the first whitespace-separated token of a
\* non-empty name, and with "there" when the name is empty or missing, and it
\* contains the headline.
C14_GreetsFirstWhitespaceToken ==
    \A s \in Senders : Posted(s) =>
        LET p == co[s].req.data.profileData IN
        /\ Contains(co[s].prompt,
                    IF NameOf(p) # <<>>
                    THEN Greeting(PrefixBefore(Trim(NameOf(p)), {" ", "\t", "\n"}))
                    ELSE Greeting(<<"t", "h", "e", "r", "e">>))
        /\ Contains(co[s].prompt, p.headline)

\* C14 as the code has it: the greeting holds the name up to its first space
\* character, other white space included, and "there" when the name is empty or
\* missing; and the prompt contains the headline.
C14_GreetsTextBeforeFirstSpace ==
    \A s \in Senders : Posted(s) =>
        LET p == co[s].req.data.profileData IN
        /\ Contains(co[s].prompt,
                    IF NameOf(p) # <<>> THEN Greeting(PrefixBefore(NameOf(p), {" "}))
                    ELSE Greeting(<<"t", "h", "e", "r", "e">>))
        /\ Contains(co[s].prompt, p.headline)

\* The prompt for Ada Lovelace, an engineer, has been sent: it greets Ada.
C14_Witness ==
    /\ Posted("ext")
    /\ NameOf(co["ext"].req.data.profileData) = <<"A", "d", "a", " ", "L", "o", "v", "e", "l", "a", "c", "e">>
    /\ Contains(co["ext"].prompt, <<"H", "i", " ", "A", "d", "a", ",">>)
    /\ Contains(co["ext"].prompt, <<"E", "n", "g", "i", "n", "e", "e", "r">>)

\* The agent's last answer was to getProfileData, on the page as it is.
ProfileAsked == agentReq.action = "getProfileData"
ProfileAnswer == ProfileAsked /\ agentResp.success

Categories ==
    {<<"t", "e", "c", "h">>, <<"m", "a", "r", "k", "e", "t", "i", "n", "g">>, <<"s", "a", "l", "e", "s">>, <<"f", "i", "n", "a", "n", "c", "e">>,
     <<"h", "e", "a", "l", "t", "h", "c", "a", "r", "e">>, <<"e", "d", "u", "c", "a", "t", "i", "o", "n">>, <<"c", "o", "n", "s", "u", "l", "t", "i", "n", "g">>, <<"p", "r", "o", "f", "e", "s", "s", "i", "o", "n", "a", "l">>}
DeclaredOrder ==
    <<<<"t", "e", "c", "h">>, <<"m", "a", "r", "k", "e", "t", "i", "n", "g">>, <<"s", "a", "l", "e", "s">>, <<"f", "i", "n", "a", "n", "c", "e">>,
      <<"h", "e", "a", "l", "t", "h", "c", "a", "r", "e">>, <<"e", "d", "u", "c", "a", "t", "i", "o", "n">>, <<"c", "o", "n", "s", "u", "l", "t", "i", "n", "g">>>>
KeywordsOf(category) ==
    UNION {industries[i].keywords : i \in {j \in 1..Len(industries) :
                                              industries[j].industry = category}}
\* A keyword of the category occurs in the text.
Matches(category, text) == \E keyword \in KeywordsOf(category) : Contains(text, keyword)

\* C15: the industry of an extracted profile is one category of the fixed set, and
\* it is a function of the text built from the extracted headline, about and
\* company (the about text as extracted: its first 200 characters and an
\* ellipsis), lower-cased: the first category of the declared order with a keyword
\* occurring in that text, and professional when no category has one.
C15_IndustryFirstMatch ==
    ProfileAnswer =>
        LET p == agentResp.profileData
            text == ToLowerCase(p.headline \o <<" ">> \o p.about \o <<" ">> \o p.company)
            matching == {i \in 1..Len(DeclaredOrder) : Matches(DeclaredOrder[i], text)}
        IN  /\ p.industry \in Categories
            /\ IF matching = {} THEN p.industry = <<"p", "r", "o", "f", "e", "s", "s", "i", "o", "n", "a", "l">>
               ELSE \E i \in matching :
                       (\A j \in matching : i <= j) /\ p.industry = DeclaredOrder[i]

\* A headline that names marketing before engineering is classified tech, the
\* category declared first.
C15_Witness ==
    /\ ProfileAnswer
    /\ agentResp.profileData.headline = <<"M", "a", "r", "k", "e", "t", "i", "n", "g", " ", "E", "n", "g", "i", "n", "e", "e", "r">>
    /\ agentResp.profileData.industry = <<"t", "e", "c", "h">>

\* No name selector matches an element whose text is not blank.
NoNameText ==
    \A i \in 1..Len(nameSelectors) :
        ~Has(dom, nameSelectors[i]) \/ Trim(dom[nameSelectors[i]]) = <<>>
\* One of the heading nodes that isProfilePage looks for is in the DOM.
HeadingNode == \E sel \in headingSelectors : Has(dom, sel)
NotProfilePage == [success |-> FALSE, error |-> "Not a LinkedIn profile page"]
There == <<"t", "h", "e", "r", "e">>

\* C16 as stated: on a page where no name selector matches a non-empty text, the
\* answer to getProfileData is a profile record with the name "there".
C16_DefaultNameAnswered ==
    (ProfileAsked /\ NoNameText) =>
        /\ Has(agentResp, "profileData")
        /\ agentResp.profileData.name = There

\* C16 as the code has it: on a page where no name selector matches a non-empty
\* text extractName gives "there"; the answer to getProfileData carries that name
\* when the address is a profile's and one of the three heading nodes is in the DOM
\* (with blank text), and is the not-a-profile-page failure, without a record, on
\* any other such page; no answer is an error thrown by the extraction.
C16_DefaultNameOnProfilePage ==
    NoNameText =>
        /\ extractName = There
        /\ ProfileAsked =>
              IF MatchesProfilePattern(tabUrl) /\ HeadingNode
              THEN /\ agentResp.success
                   /\ agentResp.profileData.name = There
              ELSE agentResp = NotProfilePage

\* A profile page whose headings are all blank was answered with the default name.
C16_Witness ==
    /\ ProfileAsked /\ NoNameText /\ HeadingNode
    /\ \A i \in 1..Len(nameSelectors) : Has(dom, nameSelectors[i])
    /\ agentResp.success /\ agentResp.profileData.name = There

ProfileFields ==
    {"name", "headline", "company", "location", "about", "experience", "industry"}

\* C17: getProfileData is answered with a profile record exactly when the address
\* matches the profile pattern and the DOM holds one of the heading nodes that
\* isProfilePage looks for: then success is true and the record has the seven
\* fields; when either fails the answer is {success: false, error: 'Not a LinkedIn
\* profile page'} and has no profileData.
C17_ExtractionGuarded ==
    ProfileAsked =>
        IF MatchesProfilePattern(tabUrl) /\ HeadingNode
        THEN /\ agentResp.success = TRUE
             /\ DOMAIN agentResp = {"success", "profileData"}
             /\ DOMAIN agentResp.profileData = ProfileFields
        ELSE /\ agentResp = NotProfilePage
             /\ ~Has(agentResp, "profileData")

\* A page at a profile address whose only heading is one isProfilePage does not
\* look for, with a name in it, was refused.
C17_Witness ==
    /\ ProfileAsked /\ MatchesProfilePattern(tabUrl)
    /\ ~HeadingNode /\ ~NoNameText
    /\ agentResp = NotProfilePage

\* The chrome.tabs.get of sendMessageToTab settles in this step.
SmtTabChecked == smt.pc = "tabsGet" /\ smt'.pc # "tabsGet"

RecommendsReload(text) == text \in {InjectFailed.error, ConnectionFailedAfterInject}

\* C19 as stated: a Bridge call whose delivery the channel rejected, or whose
\* installation failed, ends with a failure that recommends refreshing the page:
\* sendMessageToTab returns {success: false, error} with such a text, and the
\* popup's handleGenerateMessage ends showing such a status.
C19_ChannelFailureRecommendsReload ==
    [][/\ (smt.pc \in {"inject", "deliver2"} /\ smt'.pc = "returned") =>
             /\ HasSuccess(smt'.result)
             /\ \/ smt.pc = "deliver2" /\ smt'.result = AgentResponse(IconMessage)
                \/ ~smt'.result.success /\ RecommendsReload(smt'.result.error)
       /\ (/\ pg.pc \in {"send1", "inject", "send2"}
           /\ pg'.pc = "idle" /\ pg'.profileResponse = NoResp) =>
             RecommendsReload(pg'.status)]_vars

\* C20 as stated: a sender delivers a request to the agent only after it has sent
\* a ping and the ping has settled: sendMessageToTab its message, and the popup its
\* getProfileData.
C20_ProbeBeforeDelivery ==
    /\ smt.deliveries >= 1 => smt.pings >= 1 /\ smt.pc \notin {"tabsGet", "ping"}
    /\ pg.tabMsgs >= 1 => pg.pings >= 1

\* An executeScript of content.js has been evaluated in the page in this step.
Reinjected ==
    \/ smt.pc = "inject" /\ smt'.pc = "settle"
    \/ pg.pc = "inject" /\ pg'.pc = "settle"

\* C21: an injection of content.js into a context whose agent is ready changes
\* nothing there: the flag stays true, the assistant and its cached settings
\* (loaded or still loading) stay, and no listener is added; a page context never
\* has more than the one listener, so a message to it is answered once.
C21_ReinjectionIsNoOp ==
    /\ [][(Reinjected /\ agentLoaded /\ isContentScriptReady) =>
             /\ isContentScriptReady'
             /\ UNCHANGED <<agentLoaded, assistantDefined, agentSettings, settingsLoading,
                            listeners>>]_vars
    /\ [](listeners = IF agentLoaded THEN 1 ELSE 0)

\* A call whose ping was answered ready went on to inject (its delivery was
\* rejected), and the page runs a ready agent with its one listener.
C21_Witness ==
    /\ smt.pc = "settle" /\ smt.pingReady /\ smt.injections = 1
    /\ agentLoaded /\ isContentScriptReady /\ assistantDefined
    /\ ~settingsLoading /\ listeners = 1

SavedStatus == "Settings saved successfully!"

\* C22: in handleFormSubmit the write to the store is applied, and the success
\* status shown, in a step that sends nothing; settingsUpdated is sent only later,
\* after the tab query; and the step in which the tab query finds no LinkedIn tab,
\* or in which the send settles, answered or rejected, leaves the store and the
\* success status as they are.
C22_NotificationFireAndForget ==
    /\ [][/\ (pg.pc = "save" /\ pg'.pc = "updateUI") =>
                 /\ store' = Merge(store, pg.settings)
                 /\ pg'.status = SavedStatus /\ pg'.tabMsgs = 0
          /\ (pg.pc # "notify" /\ pg'.pc = "notify") =>
                 (pg.pc = "tabQuery" /\ pg.status = SavedStatus /\ pg'.tabMsgs = 1)
          /\ (pg.pc \in {"tabQuery", "notify"} /\ pg'.pc = "idle") =>
                 (store' = store /\ pg.status = SavedStatus /\ pg'.status = SavedStatus)]_vars
    /\ [](pg.pc \in {"updateUI", "tabQuery", "notify"} => pg.status = SavedStatus)

\* The form was saved, the notification found no agent in the tab, and the user
\* still reads the success status over the stored texts.
C22_Witness ==
    /\ pg.pc = "idle" /\ pg.status = SavedStatus /\ pg.tabMsgs = 1
    /\ ~agentLoaded /\ agentSettings = EmptyDoc
    /\ Has(store, "timestamp") /\ store.userContext = <<"d", "e", "v">>

\* The write of a saveSettings request settles and the requester is told so.
SaveWrote ==
    /\ BmStands("ext", "saveSettings", "write")
    /\ co'["ext"].bmPc = "done" /\ co'["ext"].resp = [success |-> TRUE]

\* C23: when saveSettings(n) has written over the document d, the store holds
\* the keys of d and of n; every key of n holds n's value, a nested settings
\* section included, which is replaced whole; every key of d that n does not have
\* keeps d's value; and saving n once more would write the same document.
C23_SaveSettingsShallowMerge ==
    [][SaveWrote =>
         LET n == DataOf(co["ext"].req)
             d == store
         IN  /\ DOMAIN store' = DOMAIN d \cup DOMAIN n
             /\ \A k \in DOMAIN n : store'[k] = n[k]
             /\ \A k \in DOMAIN d \ DOMAIN n : store'[k] = d[k]
             /\ updatedSettings(store', n) = store'
             /\ (d = updatedSettings(d, n) => store' = d)]_vars

\* A second saveSettings has replaced the nested settings section of the first
\* and kept the key the first had added.
C23_Witness ==
    /\ co["ext"].req.action = "saveSettings" /\ co["ext"].bmPc = "done"
    /\ co["ext"].resp = [success |-> TRUE]
    /\ DataOf(co["ext"].req) = [settings |-> [messageLength |-> "short"]]
    /\ Has(store, "settings") /\ store.settings = [messageLength |-> "short"]
    /\ Has(store, "theme")

\* The popup on its own: the user opens it over a tab of any address, types,
\* saves the form and clicks Generate, over the page's agent, the coordinator's
\* generation handler and the store.
InitPopup ==
    /\ tabOpen = TRUE /\ tabUrl \in Urls /\ tabHung = FALSE
    /\ agentLoaded = FALSE /\ listeners = 0 /\ isContentScriptReady = FALSE /\ assistantDefined = FALSE
    /\ dom = ProfileDom /\ docLoading = FALSE
    /\ agentSettings = EmptyDoc /\ settingsLoading = FALSE
    /\ agentReq = [action |-> "none"] /\ agentResp = NoResp
    /\ smt = SmtIdle /\ smt2 = SmtIdle
    /\ userContextField = <<>> /\ userRoleField = <<>>
    /\ pg = PgClosed
    /\ co = [s \in Senders |-> CoIdle] /\ requests = 0
    /\ geminiApiKey = FALSE /\ envFile = "key"
    /\ keepAliveInterval = FALSE /\ lc = LcIdle
    /\ store \in {EmptyDoc, [userContext |-> <<"d", "e", "v">>, userRole |-> <<"d", "e", "v">>]}
    /\ clock = 0

NextPopup ==
    \/ ContentScriptLoads
    \/ AgentLoadSettingsSettles
    \/ PopupOpens
    \/ PopupLoadSettingsSettles
    \/ PopupCloses
    \/ PopupTypes
    \/ HandleFormSubmit
    \/ PgSaveSettles
    \/ PgUpdateUISettles
    \/ PgSubmitTabQuerySettles
    \/ PgNotifySettles
    \/ PgClick
    \/ PgTabQuerySettles
    \/ PgSendSettles
    \/ PgInjectSettles
    \/ PgSettleDelayElapses
    \/ PgRetrySettles
    \/ PgCoordSettles
    \/ CoLoadKeySettles("popup")
    \/ CoFetchSettles("popup")

SpecPopup == InitPopup /\ [][NextPopup]_vars

\* The texts the extractors read off the page the tab shows.
ScrapedTexts ==
    {extractName, extractHeadline, extractCompany, extractLocation, extractAbout,
     extractExperience} \ {<<>>}

\* A document that carries profile data: a field of a profile record, a profile
\* record under its request key, or a scraped text as one of the user's texts.
CarriesProfile(doc) ==
    \/ DOMAIN doc \cap (ProfileFields \cup {"profileData"}) # {}
    \/ \E k \in DOMAIN doc \cap {"userContext", "userRole"} : doc[k] \in ScrapedTexts

\* C24: the store never carries profile data, nor does a document on its way to
\* the store (the popup's settings, a snapshot of the coordinator); and a step
\* that changes the store is the popup's save, which writes the two texts
\* of the form and the instant.
C24_ProfileNeverStored ==
    /\ ~CarriesProfile(store)
    /\ [][/\ ~CarriesProfile(store')
          /\ pg'.settings # << >> => ~CarriesProfile(pg'.settings)
          /\ ~CarriesProfile(lc'.snap)
          /\ \A s \in Senders : ~CarriesProfile(co'[s].snap)
          /\ store' # store =>
                /\ pg.pc = "save"
                /\ DOMAIN pg.settings = {"userContext", "userRole", "timestamp"}
                /\ store' = Merge(store, pg.settings)]_vars

\* The popup wrote the form to the store and then generated a message from a
\* scraped profile.
C24_Witness ==
    /\ Has(store, "timestamp")
    /\ pg.status = "Message generated successfully!"
    /\ Has(pg.profileResponse, "profileData")
    /\ pg.profileResponse.profileData = extractProfileData
    /\ pg.apiCalls = 1

\* The three conditions of the Generate button, over the popup's two fields and
\* the active tab.
ButtonConditions(userContext, userRole) ==
    /\ Trim(userContext) # <<>> /\ Trim(userRole) # <<>>
    /\ tabOpen /\ tabUrl = "profile"

\* C25: whenever a step of the popup (typing, saving, generating) enables the
\* Generate button, both fields hold text that is not blank and the active tab
\* shows a LinkedIn profile address.
C25_EnabledOnlyUnderConditions ==
    [][(pg.disabled /\ ~pg'.disabled) =>
          ButtonConditions(userContextField', userRoleField')]_vars

\* The popup's click ends without a profile answer after the first getProfileData
\* found no agent in the tab: the installation failed, or the send after it was
\* rejected.
PgUnreachableEnds ==
    /\ pg.pc \in {"inject", "send2"}
    /\ pg'.pc = "idle" /\ pg'.profileResponse = NoResp

\* C26: when the agent cannot be reached on the tab and the generation fails,
\* the popup shows the status "Connection failed. Please refresh the LinkedIn
\* page." and the explanatory text in the preview.
C26_ConnectionFailedReported ==
    [][PgUnreachableEnds =>
          /\ pg'.status = "Connection failed. Please refresh the LinkedIn page."
          /\ pg'.preview = "explanation"]_vars

\* What a Bridge call, and a click of the popup, have done so far.
SmtCounters == <<smt.pings, smt.injections, smt.deliveries, smt.retries, smt.waited>>
PgCounters == <<pg.tabMsgs, pg.injections, pg.retries, pg.waited>>

\* C27: on the installation path the request is sent again only in the step in
\* which the fixed wait ends (1500 ms in sendMessageToTab, 2000 ms in the popup),
\* and the wait begins only when executeScript has completed; the request is sent
\* again once at most, after one installation; and when the second send is
\* rejected the failure is reported in that very step, in which nothing more is
\* waited for, installed or sent.
C27_InstallPathOrderedSingleShot ==
    [][/\ smt'.retries <= 1 /\ smt'.injections <= 1
       /\ pg'.retries <= 1 /\ pg'.injections <= 1
       /\ (smt.pc # "settle" /\ smt'.pc = "settle") =>
             (smt.pc = "inject" /\ smt'.injections = 1 /\ smt'.waited = 0)
       /\ (pg.pc # "settle" /\ pg'.pc = "settle") =>
             (pg.pc = "inject" /\ pg'.injections = 1 /\ pg'.waited = 0)
       /\ (smt.pc # "deliver2" /\ smt'.pc = "deliver2") =>
             /\ smt.pc = "settle" /\ smt.retries = 0 /\ smt'.retries = 1
             /\ smt'.injections = 1 /\ smt'.waited = 1500
       /\ (pg.pc # "send2" /\ pg'.pc = "send2") =>
             /\ pg.pc = "settle" /\ pg.retries = 0 /\ pg'.retries = 1
             /\ pg'.injections = 1 /\ pg'.waited = 2000
       /\ (smt.pc = "deliver2" /\ smt'.pc # "deliver2") =>
             /\ smt'.pc = "returned" /\ SmtCounters' = SmtCounters
             /\ HasSuccess(smt'.result)
             /\ smt'.result # AgentResponse(IconMessage) => smt'.result = InjectFailed
       /\ (pg.pc = "send2" /\ pg'.pc \notin {"send2", "closed"}) =>
             /\ PgCounters' = PgCounters
             /\ pg'.profileResponse = NoResp =>
                   (pg'.pc = "idle" /\ pg'.status = ConnectionFailedAfterInject)
       /\ (smt.pc = "returned" /\ smt'.pc = "returned") => smt' = smt]_vars

\* A Bridge call installed the agent, waited, sent the message again and reported
\* the failure of that send.
C27_Witness ==
    /\ smt.pc = "returned" /\ smt.result = InjectFailed
    /\ smt.injections = 1 /\ smt.retries = 1 /\ smt.deliveries = 1 /\ smt.waited = 1500

\* A delivery of sendMessageToTab settles with the agent's answer: the agent is
\* there before and after the step in which the call returns.
SmtDeliveryAnswered ==
    /\ smt.pc \in {"deliver1", "deliver2"} /\ smt'.pc = "returned"
    /\ agentLoaded /\ agentLoaded'

\* C28: when a delivery is answered, after a ready ping or after the
\* installation, sendMessageToTab returns what the agent's listener answered, with
\* the same fields and the same values.
C28_ResponseReturnedUnchanged ==
    [][SmtDeliveryAnswered => smt'.result = AgentResponse(IconMessage)]_vars

\* The call returned the agent's answer to the message it sent after installing it.
C28_Witness ==
    /\ smt.pc = "returned" /\ smt.injections = 1 /\ smt.retries = 1
    /\ smt.result = [success |-> FALSE, error |-> "Unknown action"]
    /\ agentLoaded /\ isContentScriptReady

\* handleIconClick and sendMessageToTab for a click that comes while the first
\* call is in flight: the same steps as the first call's, over smt2.
SecondCallStep ==
    /\ \/ /\ smt2.pc = "idle" /\ smt.pc # "idle" /\ pg.pc = "closed"
          /\ tabOpen /\ IncludesLinkedIn(tabUrl)
          /\ smt2' = [SmtIdle EXCEPT !.pc = "tabsGet"]
          /\ UNCHANGED agentVars
       \/ /\ smt2.pc = "tabsGet"
          /\ smt2' = IF ~tabOpen
                     THEN [smt2 EXCEPT !.pc = "returned",
                                       !.result = [success |-> FALSE, error |-> "No tab with id"]]
                     ELSE IF ~IncludesLinkedIn(tabUrl)
                     THEN [smt2 EXCEPT !.pc = "returned",
                                       !.result = [success |-> FALSE,
                                                   error |-> "Tab not accessible or not on LinkedIn"]]
                     ELSE [smt2 EXCEPT !.pc = "ping", !.pings = @ + 1]
          /\ UNCHANGED agentVars
       \/ /\ smt2.pc = "ping"
          /\ \E o \in SendOutcomes :
               /\ AgentSide("ping", o)
               /\ smt2' = IF o = "answer" /\ AgentResponse("ping").ready
                          THEN [smt2 EXCEPT !.pc = "deliver1", !.pingReady = TRUE,
                                            !.deliveries = @ + 1]
                          ELSE [smt2 EXCEPT !.pc = "inject"]
       \/ /\ smt2.pc = "deliver1"
          /\ \E o \in SendOutcomes :
               /\ AgentSide(IconMessage, o)
               /\ smt2' = IF o = "answer"
                          THEN [smt2 EXCEPT !.pc = "returned",
                                            !.result = AgentResponse(IconMessage)]
                          ELSE [smt2 EXCEPT !.pc = "inject"]
       \/ /\ smt2.pc = "inject"
          /\ \E o \in InjectOutcomes :
               /\ InjectSide(o)
               /\ smt2' = IF o = "injected"
                          THEN [smt2 EXCEPT !.pc = "settle", !.injections = @ + 1]
                          ELSE [smt2 EXCEPT !.pc = "returned", !.result = InjectFailed,
                                            !.injections = @ + 1]
       \/ /\ smt2.pc = "settle"
          /\ smt2' = [smt2 EXCEPT !.pc = "deliver2", !.deliveries = @ + 1,
                                  !.retries = @ + 1, !.waited = @ + SmtSettleDelay]
          /\ UNCHANGED agentVars
       \/ /\ smt2.pc = "deliver2"
          /\ \E o \in SendOutcomes :
               /\ AgentSide(IconMessage, o)
               /\ smt2' = [smt2 EXCEPT !.pc = "returned",
                                       !.result = IF o = "answer"
                                                  THEN AgentResponse(IconMessage)
                                                  ELSE InjectFailed]
       \/ /\ smt2.pc = "returned"
          /\ smt2' = SmtIdle
          /\ IF ~smt2.result.success /\ tabOpen
             THEN docLoading' = TRUE /\ ContextDestroyed
                  /\ UNCHANGED <<dom, agentReq, agentResp>>
             ELSE UNCHANGED agentVars
    /\ UNCHANGED <<tabVars, smt, popupVars, coordVars, storeVars>>

\* Two clicks on the icon, the second while the call of the first is in flight,
\* over a tab whose agent is loaded by the browser or by the calls.
NextRace ==
    \/ ContentScriptLoads
    \/ DomContentLoaded
    \/ AgentLoadSettingsSettles
    \/ HandleIconClick
    \/ SmtTabsGet
    \/ SmtPingSettles
    \/ SmtDeliverySettles
    \/ SmtInjectSettles
    \/ SmtSettleDelayElapses
    \/ SmtRetrySettles
    \/ HandleIconClickResumes
    \/ SecondCallStep

SpecRace == Init /\ [][NextRace]_vars

\* The step in which a delivery of the first call, or of the second, is answered
\* by the agent.
FirstCallAnswered ==
    /\ smt.pc \in {"deliver1", "deliver2"} /\ smt'.pc = "returned"
    /\ agentLoaded /\ agentLoaded'
SecondCallAnswered ==
    /\ smt2.pc \in {"deliver1", "deliver2"} /\ smt2'.pc = "returned"
    /\ agentLoaded /\ agentLoaded'

CachedFromNotification == Has(agentSettings, "timestamp")

\* C30: once the agent has handled settingsUpdated with data d its cached settings
\* stay d for as long as its page context lives, until the next settingsUpdated
\* is handled: no other step, the settling of the constructor's loadSettings
\* included, replaces them.
C30_NotifiedSettingsStay ==
    [][(CachedFromNotification /\ agentLoaded') =>
          \/ agentSettings' = agentSettings
          \/ pg.pc = "notify" /\ agentSettings' = pg.settings]_vars

\* The positions of handleGenerateMessage between its click and its end.
GenerateInFlight == pg.pc \in {"query", "send1", "inject", "settle", "send2", "coord"}

\* C31: while a handleGenerateMessage is in flight the Generate button is
\* disabled and the message actions (with the Regenerate button) are hidden,
\* also when input events run updateUI in between.
C31_OneGenerationOutstanding ==
    GenerateInFlight => (pg.disabled /\ ~pg.messageActions)

\* The keys the popup's save writes.
PopupSavedKeys == {"userContext", "userRole", "timestamp"}

\* A key of the document that was written since handleUpdate read it.
WrittenSinceRead(k) ==
    k \in DOMAIN store /\ (k \in DOMAIN lc.doc => store[k] # lc.doc[k])

\* C32: the write of handleUpdate's read-merge-write leaves every key that the
\* popup's save wrote after handleUpdate's read at the value the popup wrote: no
\* such key goes back to the value that was read.
C32_NoLostUpdate ==
    [][(lc.pc = "updWrite" /\ lc'.pc # "updWrite") =>
          \A k \in PopupSavedKeys : WrittenSinceRead(k) => store'[k] = store[k]]_vars

\* statistics.messagesGenerated of a document, 0 when there is none.
MessagesGenerated(d) ==
    IF ~Falsy(d, "statistics") /\ Has(d.statistics, "messagesGenerated")
    THEN d.statistics.messagesGenerated
    ELSE 0

\* The logActivity request of sender s is answered in this step.
LogActivityAnswered(s) ==
    /\ co[s].bmPc \in {"read", "write"} /\ co[s].req.action = "logActivity"
    /\ co'[s].bmPc = "done"

\* What an answered logActivity request adds to the counter.
LoggedIncrement(req) ==
    IF Has(req, "data") /\ req.data.type = "messageGenerated" THEN 1 ELSE 0

\* C33: statistics.messagesGenerated never decreases in a step of the
\* coordinator, and the step that answers a logActivity request leaves it one
\* higher for the type messageGenerated and unchanged for any other type.
C33_CounterExact ==
    [][/\ MessagesGenerated(store') >= MessagesGenerated(store)
       /\ \A s \in Senders :
            LogActivityAnswered(s) =>
               MessagesGenerated(store') =
                  MessagesGenerated(store) + LoggedIncrement(co[s].req)]_vars

\* The page context of the agent ends in this step.
ContextEnds == agentLoaded /\ ~agentLoaded'

\* A LinkedInConnectionAssistant is constructed in this step: its constructor
\* starts loadSettings.
AssistantConstructed == ~settingsLoading /\ settingsLoading'

AgentAnswers == agentLoaded /\ agentLoaded'

\* The ping of sendMessageToTab settles in this step.
PingSettles == smt.pc = "ping" /\ smt'.pc # "ping"

\* A message other than a ping settles in this step: showGenerateButton from
\* sendMessageToTab, getProfileData from the popup.
MessageSettles ==
    \/ smt.pc \in {"deliver1", "deliver2"} /\ smt'.pc # smt.pc
    \/ pg.pc \in {"send1", "send2"} /\ pg'.pc \notin {pg.pc, "closed"}

NotInitializedError == "Assistant not initialized"

\* The sender of the message of this step is left with the agent's
\* 'Assistant not initialized' answer.
NotInitializedSent ==
    \/ Has(smt'.result, "error") /\ smt'.result.error = NotInitializedError
    \/ pg'.status = NotInitializedError
    \/ Has(pg'.profileResponse, "error") /\ pg'.profileResponse.error = NotInitializedError

\* C35: an answered ping reports the flag as it is and leaves the flag, the
\* assistant and its cached settings alone; any other answered message leaves
\* the agent ready with its assistant, and is never answered 'Assistant not
\* initialized'.
C35_PingReadOnlyOthersInitialize ==
    [][/\ (PingSettles /\ AgentAnswers) =>
             /\ (smt'.pc = "deliver1") = isContentScriptReady
             /\ smt'.pingReady = isContentScriptReady
             /\ UNCHANGED <<isContentScriptReady, assistantDefined, agentSettings,
                            settingsLoading>>
       /\ (MessageSettles /\ AgentAnswers) =>
             /\ isContentScriptReady' /\ assistantDefined'
             /\ ~NotInitializedSent]_vars

\* sendMessageToTab has returned the answer of an agent that its message
\* initialized: the page is not on linkedin.com and has not fired
\* DOMContentLoaded, so the load of content.js did not initialize it.
C35_Witness ==
    /\ smt.pc = "returned" /\ smt.retries = 1
    /\ Has(smt.result, "error") /\ smt.result.error = "Unknown action"
    /\ agentLoaded /\ isContentScriptReady /\ assistantDefined
    /\ docLoading /\ ~IncludesLinkedIn(tabUrl)

\* C36: while the message actions (Copy, Regenerate) are visible the preview
\* holds the generated message, never a placeholder, an error text or nothing.
C36_ActionsOnlyOverMessage ==
    (pg.pc # "closed" /\ pg.messageActions) => pg.preview = "message"

\* The positions of handleFormSubmit between a valid submit and its end.
FormInFlight == pg.pc \in {"save", "updateUI", "tabQuery", "notify"}

\* C37: a handleGenerateMessage that returns leaves the Generate loader off, a
\* handleFormSubmit that returns leaves the Save loader off and the Save button
\* enabled, and no handler that has returned (an early validation return
\* included) leaves either indicator on.
C37_LoadingAlwaysCleared ==
    [][/\ (GenerateInFlight /\ pg'.pc = "idle") =>
             (pg.generateLoader /\ ~pg'.generateLoader)
       /\ (FormInFlight /\ pg'.pc = "idle") =>
             (pg.saveLoading /\ ~pg'.saveLoading)
       /\ (pg'.pc = "idle") => (~pg'.generateLoader /\ ~pg'.saveLoading)]_vars

\* A click has ended in the error thrown after a failed installation, with the
\* Generate loader off.
C37_Witness ==
    /\ pg.pc = "idle" /\ pg.status = ConnectionFailedAfterInject
    /\ pg.injections = 1 /\ ~pg.generateLoader /\ ~pg.saveLoading

\* sendMessageToTab has returned to handleIconClick what a ready agent answered
\* to showGenerateButton on the first delivery.
ReadyAgentAnswered ==
    /\ smt.pc = "returned" /\ smt.pingReady /\ smt.deliveries = 1 /\ smt.injections = 0
    /\ smt.result = AgentDispatch(IconMessage)

\* handleIconClick reloads the tab in this step.
TabReloaded ==
    /\ smt.pc = "returned" /\ smt'.pc = "idle"
    /\ docLoading' /\ ~agentLoaded'
    /\ (~docLoading \/ agentLoaded)

\* C38: handleIconClick does not reload a LinkedIn tab whose agent was ready and
\* answered the showGenerateButton request.
C38_NoReloadWhenAnswered ==
    [][ReadyAgentAnswered => ~TabReloaded]_vars

RequiredFieldsStatus == "Please fill in all required fields"

\* handleFormSubmit runs to its return or to its first await in this step.
FormSubmitted ==
    /\ pg.pc = "idle" /\ pg' # pg /\ pg'.loading = pg.loading
    /\ userContextField' = userContextField /\ userRoleField' = userRoleField
    /\ \/ pg'.pc = "save"
       \/ pg'.pc = "idle" /\ pg'.status = RequiredFieldsStatus

\* One of the two fields is empty once trimmed.
FieldMissing == Trim(userContextField) = <<>> \/ Trim(userRoleField) = <<>>

\* C39: a handleFormSubmit with an empty context or role returns at its
\* validation: it starts no storage write, sends no settingsUpdated, and leaves
\* the stored document and the agent's cached settings as they were.
C39_RejectedSaveChangesNothing ==
    [][(FormSubmitted /\ FieldMissing) =>
          /\ pg'.pc = "idle" /\ pg'.status = RequiredFieldsStatus
          /\ pg'.settings = << >> /\ pg'.tabMsgs = 0 /\ ~pg'.saveLoading
          /\ store' = store /\ agentSettings' = agentSettings]_vars

\* A save was rejected for its empty role while the store held the user's texts.
C39_Witness ==
    /\ pg.pc = "idle" /\ pg.status = RequiredFieldsStatus
    /\ Trim(userContextField) # <<>> /\ Trim(userRoleField) = <<>>
    /\ Has(store, "userRole") /\ store.userRole # <<>>

\* The popup sends the coordinator a request in this step.
CoordRequestSent == pg.pc # "coord" /\ pg'.pc = "coord"

\* The getProfileData answer the popup holds is a success.
ProfileSucceeded(p) ==
    Has(p.profileResponse, "success") /\ p.profileResponse.success

\* C40: the popup's request to the coordinator is sent in the step in which a
\* getProfileData answer with success = true arrives for the click, as
\* generateGeminiMessage with that answer's profileData and the click's two
\* texts; the coordinator gets a request of the popup in no other step, and a
\* getProfileData that fails, is rejected or is answered without success ends
\* the click with no request to the coordinator.
C40_GenerateOnlyAfterProfile ==
    [][/\ CoordRequestSent =>
             /\ pg.pc \in {"send1", "send2"} /\ pg.coordReqs = 0 /\ pg'.coordReqs = 1
             /\ ProfileSucceeded(pg')
             /\ co'["popup"].req =
                   [action |-> "generateGeminiMessage",
                    data |-> [profileData |-> pg'.profileResponse.profileData,
                              userContext |-> pg.userContext,
                              userRole |-> pg.userRole]]
       /\ (co'["popup"] # co["popup"] /\ ~CoordRequestSent) =>
             co'["popup"].req = IF co'["popup"] = CoIdle THEN CoIdle.req
                                ELSE co["popup"].req
       /\ (pg.pc \in {"query", "send1", "inject", "settle", "send2"} /\ pg'.pc = "idle") =>
             (pg'.coordReqs = 0 /\ co'["popup"] = co["popup"])
       /\ (pg'.pc # "closed" /\ pg'.coordReqs > 0) => ProfileSucceeded(pg')]_vars

\* The popup waits for the coordinator with the profile an installed agent
\* answered after the wait.
C40_Witness ==
    /\ pg.pc = "coord" /\ pg.retries = 1 /\ pg.coordReqs = 1
    /\ ProfileSucceeded(pg)
    /\ co["popup"].req.action = "generateGeminiMessage"
    /\ co["popup"].req.data.profileData = pg.profileResponse.profileData

============================================================================
